---- MODULE Spec2Model ----
(***************************************************************************)
(* Model of the file-management commands of excaliapp (src-tauri).        *)
(*                                                                         *)
(* Strings are sequences of tokens: a token is one special character       *)
(* ("/", "\\", ".", "~", "_", "-") or a maximal run of letters/digits      *)
(* ("note", "excalidraw").  Every string operation of the code (replace,  *)
(* contains, split at the last dot, split at separators) acts on special  *)
(* characters only, so it is computed here token by token exactly as the  *)
(* code computes it character by character.                                *)
(*                                                                         *)
(* A path (Path / PathBuf) is such a string.  The file system maps         *)
(* canonical component sequences to file contents.                         *)
(***************************************************************************)
EXTENDS Naturals, Sequences, FiniteSets, TLC

VARIABLES files, dirs, op, scanned, vp, calls, call, log, watch

vars == <<files, dirs, op, scanned, vp, calls, call, log, watch>>

\* ------------------------------------------------------------------ strings

SEP == "/"
BSL == "\\"
DOT == "."
TILDE == "~"
USC == "_"

\* "excalidraw", the document extension
EXCALIDRAW == <<"excalidraw">>

\* str.contains(sub)
Contains(s, sub) ==
    \E i \in 1..(Len(s) + 1 - Len(sub)) :
        \A j \in 1..Len(sub) : s[i + j - 1] = sub[j]

\* str.replace(ch, "_") for a single character ch
ReplaceChar(s, ch) == [i \in 1..Len(s) |-> IF s[i] = ch THEN USC ELSE s[i]]

\* str.replace("..", "_"): non-overlapping matches, leftmost first
RECURSIVE ReplaceDotDot(_)
ReplaceDotDot(s) ==
    IF Len(s) = 0 THEN <<>>
    ELSE IF Len(s) >= 2 /\ s[1] = DOT /\ s[2] = DOT
         THEN <<USC>> \o ReplaceDotDot(SubSeq(s, 3, Len(s)))
         ELSE <<s[1]>> \o ReplaceDotDot(Tail(s))

\* the segments of s between separators, empty segments dropped
RECURSIVE SplitFrom(_, _)
SplitFrom(s, cur) ==
    IF Len(s) = 0 THEN (IF cur = <<>> THEN <<>> ELSE <<cur>>)
    ELSE IF s[1] = SEP
         THEN (IF cur = <<>> THEN <<>> ELSE <<cur>>) \o SplitFrom(Tail(s), <<>>)
         ELSE SplitFrom(Tail(s), Append(cur, s[1]))

Segments(s) == SplitFrom(s, <<>>)

\* -------------------------------------------------------------------- paths

CURDIR == <<DOT>>
PARENTDIR == <<DOT, DOT>>
ROOTDIR == <<SEP>>

\* Path::is_absolute / is_relative
IsAbsolute(s) == Len(s) > 0 /\ s[1] = SEP

\* Path::components: the root, then the segments; "." is dropped except as
\* the first segment of a relative path
Components(s) ==
    LET segs == Segments(s)
        keep == SelectSeq(segs, LAMBDA c : c # CURDIR)
    IN  IF IsAbsolute(s) THEN <<ROOTDIR>> \o keep
        ELSE IF Len(segs) > 0 /\ segs[1] = CURDIR THEN <<CURDIR>> \o keep
        ELSE keep

\* PathBuf == PathBuf compares components
PathEq(a, b) == Components(a) = Components(b)

\* Path::starts_with: whole components only
StartsWith(a, b) ==
    LET ca == Components(a)
        cb == Components(b)
    IN  Len(cb) <= Len(ca) /\ SubSeq(ca, 1, Len(cb)) = cb

\* the string of a sequence of normal components under the root
RECURSIVE JoinComps(_)
JoinComps(cs) ==
    IF Len(cs) = 0 THEN <<>> ELSE <<SEP>> \o cs[1] \o JoinComps(Tail(cs))

AbsStr(cs) == IF Len(cs) = 0 THEN <<SEP>> ELSE JoinComps(cs)

\* Path::join with a name that holds no separator
PathJoin(base, name) ==
    IF Len(base) > 0 /\ base[Len(base)] = SEP THEN base \o name
    ELSE base \o <<SEP>> \o name

NoneName == <<>>

\* Path::file_name: the last component when it is a normal one
FileName(s) ==
    LET cs == Components(s)
    IN  IF Len(cs) = 0 THEN NoneName
        ELSE IF cs[Len(cs)] \in {ROOTDIR, CURDIR, PARENTDIR} THEN NoneName
        ELSE cs[Len(cs)]

\* Path::parent of a canonical path: every component but the last
\* (hasParent is FALSE for the root)
HasParent(s) == Len(Components(s)) > 1

Parent(s) ==
    LET cs == Components(s)
    IN  AbsStr(SubSeq(cs, 2, Len(cs) - 1))

\* index of the last "." of a file name that splits stem and extension;
\* 0 when there is none (a leading dot does not start an extension)
LastDot(name) ==
    LET idx == {i \in 2..Len(name) : name[i] = DOT}
    IN  IF idx = {} THEN 0 ELSE CHOOSE i \in idx : \A j \in idx : j <= i

HasExtension(s) == FileName(s) # NoneName /\ LastDot(FileName(s)) > 0

\* Path::extension
Extension(s) ==
    LET n == FileName(s)
    IN  SubSeq(n, LastDot(n) + 1, Len(n))

\* Path::file_stem
FileStem(s) ==
    LET n == FileName(s)
    IN  IF LastDot(n) = 0 THEN n ELSE SubSeq(n, 1, LastDot(n) - 1)

\* the path up to the end of its file name: trailing separators and
\* trailing "." segments are cut
RECURSIVE TrimTrailing(_)
TrimTrailing(s) ==
    IF Len(s) > 1 /\ s[Len(s)] = SEP
    THEN TrimTrailing(SubSeq(s, 1, Len(s) - 1))
    ELSE IF Len(s) > 2 /\ s[Len(s)] = DOT /\ s[Len(s) - 1] = SEP
         THEN TrimTrailing(SubSeq(s, 1, Len(s) - 2))
         ELSE s

\* Path::with_extension(ext): the path is cut after the file stem and
\* "." ext is appended; a path without a file name is returned as it is
WithExtension(s, ext) ==
    LET n == FileName(s)
        t == TrimTrailing(s)
    IN  IF n = NoneName THEN s
        ELSE SubSeq(t, 1, Len(t) - Len(n)) \o FileStem(s) \o <<DOT>> \o ext

\* -------------------------------------------------------------- file system
\* files : canonical component sequence |-> content of the regular file there
\* dirs  : the canonical component sequences that are directories

NOTE == <<"note", DOT, "excalidraw">>
DRAFT == <<"draft", DOT, "excalidraw">>
FINAL == <<"notes", DOT, DOT, "final", DOT, "excalidraw">>
README == <<"readme", DOT, "txt">>
MISSING == <<"missing", DOT, "excalidraw">>

DirD == << <<"d">> >>
DirE == << <<"e">> >>
LinkL == << <<"d">>, <<"lnk">> >>

\* the symbolic links of the tree: /d/lnk -> /e
Links == (LinkL :> DirE)

\* the working directory of the process
Cwd == DirD

\* content written by a write that stopped early or was corrupted
TRUNCATED == "truncated"

NoPath == <<>>

\* std::fs::canonicalize from directory cur over the remaining segments:
\* follows links, resolves "." and "..", fails on a missing entry
RECURSIVE ResolveFrom(_, _)
ResolveFrom(cur, segs) ==
    IF Len(segs) = 0 THEN [ok |-> TRUE, comps |-> cur]
    ELSE IF cur \notin dirs THEN [ok |-> FALSE, comps |-> NoPath]
    ELSE LET c == segs[1]
             nxt == Append(cur, c)
         IN  IF c = CURDIR THEN ResolveFrom(cur, Tail(segs))
             ELSE IF c = PARENTDIR
                  THEN ResolveFrom(SubSeq(cur, 1, Len(cur) - 1), Tail(segs))
             ELSE IF nxt \in DOMAIN Links THEN ResolveFrom(Links[nxt], Tail(segs))
             ELSE IF nxt \in dirs \/ nxt \in DOMAIN files
                  THEN ResolveFrom(nxt, Tail(segs))
             ELSE [ok |-> FALSE, comps |-> NoPath]

Resolve(s) ==
    IF Len(s) = 0 THEN [ok |-> FALSE, comps |-> NoPath]
    ELSE ResolveFrom(IF IsAbsolute(s) THEN <<>> ELSE Cwd, Segments(s))

\* Path::canonicalize
Canonicalize(s) ==
    LET r == Resolve(s)
    IN  [ok |-> r.ok, path |-> IF r.ok THEN AbsStr(r.comps) ELSE NoPath]

\* Path::exists, Path::is_dir, Path::is_file (all follow links)
Exists(s) == Resolve(s).ok
IsDir(s) == Resolve(s).ok /\ Resolve(s).comps \in dirs
IsFile(s) == Resolve(s).ok /\ Resolve(s).comps \in DOMAIN files

\* the place fs::write(s, ..) creates or truncates: the file s resolves to,
\* or a new entry in the directory its parent resolves to
WriteTarget(s) ==
    LET segs == Segments(s)
        par == ResolveFrom(IF IsAbsolute(s) THEN <<>> ELSE Cwd,
                           SubSeq(segs, 1, Len(segs) - 1))
    IN  IF Resolve(s).ok
        THEN [ok |-> Resolve(s).comps \in DOMAIN files, comps |-> Resolve(s).comps]
        ELSE IF Len(segs) > 0 /\ par.ok /\ par.comps \in dirs
                /\ segs[Len(segs)] \notin {CURDIR, PARENTDIR}
             THEN [ok |-> TRUE, comps |-> Append(par.comps, segs[Len(segs)])]
             ELSE [ok |-> FALSE, comps |-> NoPath]

\* the file system after fs::write(s, content) stored `content`
WriteFile(fs, key, content) ==
    [k \in DOMAIN fs \cup {key} |-> IF k = key THEN content ELSE fs[k]]

\* the file system after fs::remove_file removed `key`
RemoveFile(fs, key) == [k \in DOMAIN fs \ {key} |-> fs[k]]

\* ------------------------------------------------------------- security.rs

Ok(path) == [ok |-> TRUE, path |-> path, err |-> "none"]
Err(e) == [ok |-> FALSE, path |-> NoPath, err |-> e]

None == [some |-> FALSE, path |-> NoPath]
Some(path) == [some |-> TRUE, path |-> path]

\* if path_str.contains("..") || path_str.contains("~")
Suspicious(path_str) ==
    Contains(path_str, <<DOT, DOT>>) \/ Contains(path_str, <<TILDE>>)

\* if !canonical_path.starts_with(&canonical_base)
OutsideBase(canonical_path, canonical_base) ==
    ~StartsWith(canonical_path, canonical_base)

validate_path(path, allowed_base) ==
    LET canonical_path == Canonicalize(path)
        canonical_base == Canonicalize(allowed_base.path)
    IN  IF ~canonical_path.ok THEN Err("canonicalize")
        ELSE IF allowed_base.some /\ ~canonical_base.ok THEN Err("canonicalize_base")
        ELSE IF allowed_base.some
                /\ OutsideBase(canonical_path.path, canonical_base.path)
             THEN Err("traversal")
        ELSE IF Suspicious(canonical_path.path) THEN Err("suspicious")
        ELSE Ok(canonical_path.path)

\* the letters of a word in lower case
Lower(word) ==
    IF word \in {"EXCALIDRAW", "Excalidraw"} THEN "excalidraw" ELSE word

\* the check of the extension made without regard to case
validate_excalidraw_file_any_case(path) ==
    IF ~HasExtension(path) THEN "no_extension"
    ELSE IF [i \in 1..Len(Extension(path)) |-> Lower(Extension(path)[i])]
            = EXCALIDRAW THEN "ok"
    ELSE "wrong_extension"

validate_excalidraw_file(path) ==
    IF ~HasExtension(path) THEN "no_extension"
    ELSE IF Extension(path) = EXCALIDRAW THEN "ok"
    ELSE "wrong_extension"

safe_path_join(base, file_name) ==
    LET clean_name == ReplaceDotDot(ReplaceChar(ReplaceChar(file_name, SEP), BSL))
    IN  IF clean_name = <<>> THEN Err("invalid_filename")
        ELSE Ok(PathJoin(base, clean_name))

\* ------------------------------------------------------------------- scans

\* fs::read_dir(dir): the names of the entries of the directory
ReadDir(dcomps) ==
    {k[Len(k)] : k \in {x \in (DOMAIN files \cup dirs \cup DOMAIN Links) :
                          Len(x) = Len(dcomps) + 1
                          /\ SubSeq(x, 1, Len(dcomps)) = dcomps}}

ExcalidrawFile(path) ==
    [name |-> FileName(path), path |-> path, modified |-> FALSE]

\* the files pushed by the recursive walk, in no particular order
RECURSIVE collect_excalidraw_files_recursive(_)
collect_excalidraw_files_recursive(dir) ==
    LET entries == {PathJoin(dir, n) : n \in ReadDir(Resolve(dir).comps)}
    IN  {ExcalidrawFile(path) :
            path \in {e \in entries : IsFile(e) /\ HasExtension(e)
                                       /\ Extension(e) = EXCALIDRAW}}
        \cup UNION {collect_excalidraw_files_recursive(path) :
                        path \in {e \in entries : ~IsFile(e) /\ IsDir(e)}}

\* ---------------------------------------------------------------- commands
\* op[p] is the command task p is running: its position (pc), the locals of
\* the handler, its result, and what the disk held when it was called.

Procs == {1}

\* how many commands are issued in one run
MaxCalls == 1

Idle ==
    [kind |-> "idle", pc |-> "idle", src |-> NoPath, dst |-> NoPath,
     content |-> "", result |-> Err("pending"), verified |-> FALSE,
     srcKey |-> NoPath, pre |-> <<>>, warned |-> FALSE, fault |-> FALSE,
     name |-> <<>>]

\* the handler returns `result`
Return(o, result) == [o EXCEPT !.pc = "done", !.result = result]

\* the fix-up that appends the extension without looking at the path
EnsureExtensionAppends(new_path) == new_path \o <<DOT>> \o EXCALIDRAW

\* let new_path = if new_path.extension() != Some("excalidraw")
\*                { new_path.with_extension("excalidraw") } else { new_path }
EnsureExtension(new_path) ==
    IF ~(HasExtension(new_path) /\ Extension(new_path) = EXCALIDRAW)
    THEN WithExtension(new_path, EXCALIDRAW)
    ELSE new_path

\* the collision test with == written in place of !=
RenameCollidesInverted(new_path, old_path) ==
    Exists(new_path) /\ PathEq(new_path, old_path)

\* if new_path.exists() && new_path != old_path
RenameCollides(new_path, old_path) ==
    Exists(new_path) /\ ~PathEq(new_path, old_path)

\* rename_file up to its first read: the validation of the arguments.
\* `path` is new_path once it has been computed, also when the call fails.
Plan(ok, err, path, same) == [ok |-> ok, err |-> err, path |-> path, same |-> same]

RenamePlan(old_path, new_name) ==
    LET validated_old == validate_path(old_path, None)
        joined == safe_path_join(Parent(validated_old.path), new_name)
        new_path == EnsureExtension(joined.path)
        fail(e) == Plan(FALSE, e, NoPath, FALSE)
    IN  IF ~validated_old.ok THEN fail(validated_old.err)
        ELSE IF ~Exists(validated_old.path) THEN fail("not_found")
        ELSE IF validate_excalidraw_file(validated_old.path) # "ok"
             THEN fail(validate_excalidraw_file(validated_old.path))
        ELSE IF ~HasParent(validated_old.path) THEN fail("invalid_path")
        ELSE IF ~joined.ok THEN fail(joined.err)
        ELSE IF RenameCollides(new_path, old_path)
             THEN Plan(FALSE, "already_exists", new_path, FALSE)
        ELSE Plan(TRUE, "none", new_path, FALSE)

Begin(kind, src, srcKey) ==
    [Idle EXCEPT !.kind = kind, !.src = src, !.srcKey = srcKey, !.pre = files]

\* task p runs rename_file(old_path, new_name) up to its first read
RenameBegin(p, old_path, new_name) ==
    /\ op[p].pc = "idle"
    /\ LET plan == RenamePlan(old_path, new_name)
           o == Begin("rename", old_path, Resolve(old_path).comps)
       IN  op' = [op EXCEPT ![p] =
                    IF plan.ok THEN [o EXCEPT !.pc = "read", !.dst = plan.path]
                    ELSE Return([o EXCEPT !.dst = plan.path], Err(plan.err))]
    /\ UNCHANGED <<files, dirs, scanned, vp, call, log, watch>>

RenameStart(p, old_path, new_name) ==
    /\ calls < MaxCalls
    /\ calls' = calls + 1
    /\ RenameBegin(p, old_path, new_name)

\* Step 1: fs::read_to_string(old_path)
RenameRead(p) ==
    /\ op[p].kind = "rename" /\ op[p].pc = "read"
    /\ \/ /\ IsFile(op[p].src)
          /\ op' = [op EXCEPT ![p].pc = "write",
                              ![p].content = files[Resolve(op[p].src).comps]]
       \/ op' = [op EXCEPT ![p] = Return(op[p], Err("read_failed"))]
    /\ UNCHANGED <<files, dirs, scanned, vp, calls, call, log, watch>>

\* fs::write(path, content): it stores the content, or stores a damaged copy
\* while reporting success, or stops early with an error, or fails at once
WriteOutcomes == {"ok", "corrupt", "partial", "error"}

WriteReturnsOk(outcome) == outcome \in {"ok", "corrupt"}

\* a write that never stores the content it was given
FilesAfterWriteLossy(path, content, outcome) ==
    LET t == WriteTarget(path)
    IN  IF outcome = "error" THEN files
        ELSE WriteFile(files, t.comps, TRUNCATED)

FilesAfterWrite(path, content, outcome) ==
    LET t == WriteTarget(path)
    IN  IF outcome = "ok" THEN WriteFile(files, t.comps, content)
        ELSE IF outcome \in {"corrupt", "partial"}
             THEN WriteFile(files, t.comps, TRUNCATED)
        ELSE files

\* Step 2: fs::write(&new_path, &content)
RenameWrite(p) ==
    /\ op[p].kind = "rename" /\ op[p].pc = "write"
    /\ \E outcome \in WriteOutcomes :
          /\ outcome # "error" => WriteTarget(op[p].dst).ok
          /\ files' = FilesAfterWrite(op[p].dst, op[p].content, outcome)
          /\ op' = [op EXCEPT ![p] =
                       IF WriteReturnsOk(outcome) THEN [op[p] EXCEPT !.pc = "verify"]
                       ELSE Return(op[p], Err("write_failed"))]
    /\ UNCHANGED <<dirs, scanned, vp, calls, call, log, watch>>

\* let _ = fs::remove_file(path): the file is removed, or the removal fails
\* and the failure is dropped
FilesAfterCleanup(path) ==
    {files} \cup (IF IsFile(path) THEN {RemoveFile(files, Resolve(path).comps)}
                  ELSE {})

\* Step 3: fs::read_to_string(&new_path) and the comparison
RenameVerify(p) ==
    /\ op[p].kind = "rename" /\ op[p].pc = "verify"
    /\ \/ /\ IsFile(op[p].dst)
          /\ files[Resolve(op[p].dst).comps] = op[p].content
          /\ op' = [op EXCEPT ![p].pc = "remove", ![p].verified = TRUE]
          /\ UNCHANGED files
       \/ /\ IsFile(op[p].dst)
          /\ files[Resolve(op[p].dst).comps] # op[p].content
          /\ files' \in FilesAfterCleanup(op[p].dst)
          /\ op' = [op EXCEPT ![p] = Return(op[p], Err("verification_failed"))]
       \/ /\ files' \in FilesAfterCleanup(op[p].dst)
          /\ op' = [op EXCEPT ![p] = Return(op[p], Err("verify_read_failed"))]
    /\ UNCHANGED <<dirs, scanned, vp, calls, call, log, watch>>

\* Step 4: fs::remove_file(old_path); a failure is only logged
RenameRemove(p) ==
    /\ op[p].kind = "rename" /\ op[p].pc = "remove"
    /\ \/ /\ IsFile(op[p].src)
          /\ files' = RemoveFile(files, Resolve(op[p].src).comps)
          /\ op' = [op EXCEPT ![p] = Return(op[p], Ok(op[p].dst))]
       \/ /\ UNCHANGED files
          /\ op' = [op EXCEPT ![p] =
                       [Return(op[p], Ok(op[p].dst)) EXCEPT !.warned = TRUE]]
    /\ UNCHANGED <<dirs, scanned, vp, calls, call, log, watch>>

\* if validated_source.canonicalize().unwrap_or(validated_source.clone())
\*    == target_path.canonicalize().unwrap_or(target_path.clone())
CanonicalOrSelf(path) ==
    IF Canonicalize(path).ok THEN Canonicalize(path).path ELSE path

SameFile(validated_source, target_path) ==
    PathEq(CanonicalOrSelf(validated_source), CanonicalOrSelf(target_path))

\* if target_path.exists()
MoveCollides(target_path) == Exists(target_path)

\* move_file up to its first read; `same` tells the early return of a move
\* into the file's own directory
MovePlan(source_path, target_directory) ==
    LET validated_source == validate_path(source_path, None)
        validated_target_dir == validate_path(target_directory, None)
        target_path == safe_path_join(validated_target_dir.path,
                                      FileName(validated_source.path))
        fail(e) == Plan(FALSE, e, NoPath, FALSE)
    IN  IF ~validated_source.ok THEN fail(validated_source.err)
        ELSE IF ~Exists(validated_source.path) THEN fail("not_found")
        ELSE IF validate_excalidraw_file(validated_source.path) # "ok"
             THEN fail(validate_excalidraw_file(validated_source.path))
        ELSE IF ~validated_target_dir.ok THEN fail(validated_target_dir.err)
        ELSE IF ~IsDir(validated_target_dir.path) THEN fail("not_a_directory")
        ELSE IF FileName(validated_source.path) = NoneName THEN fail("invalid_name")
        ELSE IF ~target_path.ok THEN fail(target_path.err)
        ELSE IF SameFile(validated_source.path, target_path.path)
             THEN Plan(TRUE, "none", validated_source.path, TRUE)
        ELSE IF MoveCollides(target_path.path)
             THEN Plan(FALSE, "already_exists", target_path.path, FALSE)
        ELSE Plan(TRUE, "none", target_path.path, FALSE)

\* task p runs move_file(source_path, target_directory) up to its first read
MoveBegin(p, source_path, target_directory) ==
    /\ op[p].pc = "idle"
    /\ LET plan == MovePlan(source_path, target_directory)
           validated_source == validate_path(source_path, None)
           o == Begin("move",
                      IF validated_source.ok THEN validated_source.path
                      ELSE source_path,
                      Resolve(source_path).comps)
       IN  op' = [op EXCEPT ![p] =
                    IF ~plan.ok
                    THEN Return([o EXCEPT !.dst = plan.path], Err(plan.err))
                    ELSE IF plan.same
                         THEN Return([o EXCEPT !.dst = plan.path], Ok(plan.path))
                    ELSE [o EXCEPT !.pc = "read", !.dst = plan.path]]
    /\ UNCHANGED <<files, dirs, scanned, vp, call, log, watch>>

MoveStart(p, source_path, target_directory) ==
    /\ calls < MaxCalls
    /\ calls' = calls + 1
    /\ MoveBegin(p, source_path, target_directory)

\* fs::read_to_string(&validated_source)
MoveRead(p) ==
    /\ op[p].kind = "move" /\ op[p].pc = "read"
    /\ \/ /\ IsFile(op[p].src)
          /\ op' = [op EXCEPT ![p].pc = "write",
                              ![p].content = files[Resolve(op[p].src).comps]]
       \/ op' = [op EXCEPT ![p] = Return(op[p], Err("read_failed"))]
    /\ UNCHANGED <<files, dirs, scanned, vp, calls, call, log, watch>>

\* fs::write(&target_path, &content)
MoveWrite(p) ==
    /\ op[p].kind = "move" /\ op[p].pc = "write"
    /\ \E outcome \in WriteOutcomes :
          /\ outcome # "error" => WriteTarget(op[p].dst).ok
          /\ files' = FilesAfterWrite(op[p].dst, op[p].content, outcome)
          /\ op' = [op EXCEPT ![p] =
                       IF WriteReturnsOk(outcome) THEN [op[p] EXCEPT !.pc = "verify"]
                       ELSE Return(op[p], Err("write_failed"))]
    /\ UNCHANGED <<dirs, scanned, vp, calls, call, log, watch>>

\* fs::read_to_string(&target_path)?, then the comparison with its cleanup
MoveVerify(p) ==
    /\ op[p].kind = "move" /\ op[p].pc = "verify"
    /\ \/ /\ IsFile(op[p].dst)
          /\ files[Resolve(op[p].dst).comps] = op[p].content
          /\ op' = [op EXCEPT ![p].pc = "remove", ![p].verified = TRUE]
          /\ UNCHANGED files
       \/ /\ IsFile(op[p].dst)
          /\ files[Resolve(op[p].dst).comps] # op[p].content
          /\ files' \in FilesAfterCleanup(op[p].dst)
          /\ op' = [op EXCEPT ![p] = Return(op[p], Err("verification_failed"))]
       \/ /\ UNCHANGED files
          /\ op' = [op EXCEPT ![p] = Return(op[p], Err("verify_read_failed"))]
    /\ UNCHANGED <<dirs, scanned, vp, calls, call, log, watch>>

\* a failed removal of the source reported as success, as rename_file does
MoveRemoveFailedAsSuccess(o) == [Return(o, Ok(o.dst)) EXCEPT !.warned = TRUE]

\* the result of move_file when fs::remove_file(&validated_source) failed
MoveRemoveFailed(o) == [Return(o, Err("remove_failed")) EXCEPT !.warned = TRUE]

\* fs::remove_file(&validated_source)?
MoveRemove(p) ==
    /\ op[p].kind = "move" /\ op[p].pc = "remove"
    /\ \/ /\ IsFile(op[p].src)
          /\ files' = RemoveFile(files, Resolve(op[p].src).comps)
          /\ op' = [op EXCEPT ![p] = Return(op[p], Ok(op[p].dst))]
       \/ /\ UNCHANGED files
          /\ op' = [op EXCEPT ![p] = MoveRemoveFailed(op[p])]
    /\ UNCHANGED <<dirs, scanned, vp, calls, call, log, watch>>

\* the host takes the result; the task is free for the next command
Finish(p) ==
    /\ op[p].pc = "done"
    /\ op' = [op EXCEPT ![p] = Idle]
    /\ UNCHANGED <<files, dirs, scanned, vp, calls, call, log, watch>>

NoScan == [directory |-> NoPath, ok |-> FALSE, files |-> {}]

\* list_excalidraw_files(directory), before the sort of the result
list_excalidraw_files(directory) ==
    /\ scanned' =
          IF ~Exists(directory) \/ ~IsDir(directory)
          THEN [directory |-> directory, ok |-> FALSE, files |-> {}]
          ELSE [directory |-> directory, ok |-> TRUE,
                files |-> collect_excalidraw_files_recursive(directory)]
    /\ UNCHANGED <<files, dirs, op, vp, calls, call, log, watch>>

\* no pure function has been called on its own yet
NoPureCall == [fn |-> "none", args |-> <<>>, result |-> Err("pending")]

\* AppState::default() and no watch_directory call yet: current_directory of
\* the state, the subscriptions made so far, what was emitted to the window
NoWatch == [current_directory |-> None, subs |-> <<>>, emitted |-> <<>>,
            inputs |-> 0]

\* validate_path(path, allowed_base) called on its own
NoCall == [path |-> NoPath, base |-> None, result |-> Err("pending")]

ValidatePathCall(path, allowed_base) ==
    /\ vp' = [path |-> path, base |-> allowed_base,
              result |-> validate_path(path, allowed_base)]
    /\ UNCHANGED <<files, dirs, op, scanned, calls, call, log, watch>>

\* ------------------------------------------------------------------ inputs

PathD == AbsStr(DirD)
PathE == AbsStr(DirE)
PathL == AbsStr(LinkL)

\* /d/note.excalidraw, the same file through "..", "." and the working
\* directory, a file reached through the link, and paths that fail validation
OldPaths ==
    { PathJoin(PathD, NOTE),
      PathD \o <<SEP>> \o PARENTDIR \o <<SEP, "d", SEP>> \o NOTE,
      PathD \o <<SEP>> \o CURDIR \o <<SEP>> \o DRAFT,
      DRAFT,
      PathJoin(PathL, NOTE),
      PathJoin(PathD, FINAL),
      PathJoin(PathD, README),
      PathJoin(PathD, MISSING) }

NewNames ==
    { <<"note">>, <<"draft", DOT, "excalidraw">>, <<"fresh">>,
      <<"a", SEP, DOT, DOT, BSL, "b">>, <<>> }

TargetDirs ==
    { PathD, PathE, PathL, PathJoin(PathD, README), <<SEP, "missing">> }

ScanDirs == { PathD, PathE, <<SEP, "missing">> }

InitFiles ==
    (Append(DirD, NOTE) :> "c1") @@ (Append(DirD, DRAFT) :> "c2")
    @@ (Append(DirD, FINAL) :> "c3") @@ (Append(DirE, NOTE) :> "c4")
    @@ (Append(DirD, README) :> "c5")

Init ==
    /\ files = InitFiles
    /\ dirs = {<<>>, DirD, DirE}
    /\ op = [p \in Procs |-> Idle]
    /\ scanned = NoScan
    /\ vp = NoCall
    /\ calls = 0
    /\ call = NoPureCall
    /\ log = <<>>
    /\ watch = NoWatch

Next ==
    \/ \E p \in Procs, old_path \in OldPaths, new_name \in NewNames :
          RenameStart(p, old_path, new_name)
    \/ \E p \in Procs : RenameRead(p)
    \/ \E p \in Procs : RenameWrite(p)
    \/ \E p \in Procs : RenameVerify(p)
    \/ \E p \in Procs : RenameRemove(p)
    \/ \E p \in Procs, source_path \in OldPaths, target_directory \in TargetDirs :
          MoveStart(p, source_path, target_directory)
    \/ \E p \in Procs : MoveRead(p)
    \/ \E p \in Procs : MoveWrite(p)
    \/ \E p \in Procs : MoveVerify(p)
    \/ \E p \in Procs : MoveRemove(p)
    \/ \E p \in Procs : Finish(p)
    \/ \E directory \in ScanDirs : list_excalidraw_files(directory)

Spec == Init /\ [][Next]_vars

\* ------------------------------------------------- validate_path on its own
\* The disk holds any part of the initial tree; validate_path is applied to
\* every input path under every choice of sandbox root.

ValidatePaths ==
    OldPaths \cup
    { PathD \o <<SEP>> \o PARENTDIR \o <<SEP, "e", SEP>> \o NOTE,
      PARENTDIR \o <<SEP, "e", SEP>> \o NOTE,
      PathD \o <<SEP>> \o PARENTDIR,
      <<TILDE, SEP>> \o NOTE,
      PathD \o <<SEP, TILDE, SEP>> \o NOTE,
      PathJoin(PathE, NOTE),
      PathD, PathE, PathL, <<SEP>> }

Bases ==
    { None, Some(PathD), Some(PathE), Some(PathL), Some(<<SEP>>),
      Some(<<SEP, "missing">>) }

InitPath ==
    /\ files \in {[k \in K |-> InitFiles[k]] : K \in SUBSET DOMAIN InitFiles}
    /\ dirs = {<<>>, DirD, DirE}
    /\ op = [p \in Procs |-> Idle]
    /\ scanned = NoScan
    /\ vp = NoCall
    /\ calls = 0
    /\ call = NoPureCall
    /\ log = <<>>
    /\ watch = NoWatch

NextPath ==
    \E path \in ValidatePaths, allowed_base \in Bases :
        ValidatePathCall(path, allowed_base)

SpecPath == InitPath /\ [][NextPath]_vars

\* -------------------------------------------------------------- properties

\* the command of task p has returned
Returned(p) == op[p].pc = "done" /\ op[p].kind \in {"rename", "move"}

\* the source was a regular file when the command was called
HadSource(o) == o.srcKey \in DOMAIN o.pre

\* the content the source had when the command was called
SourceContent(o) == o.pre[o.srcKey]

\* the place of the destination file
DstKey(o) == WriteTarget(o.dst).comps

Holds(key, content) == key \in DOMAIN files /\ files[key] = content

VerifyErrors == {"verification_failed", "verify_read_failed"}

\* C1: after every rename_file or move_file call, whatever its outcome, a
\* file holding the source's original content exists at the source path or
\* at the destination path.
C1_ContentNeverLost ==
    \A p \in Procs :
        (Returned(p) /\ HadSource(op[p])) =>
            \/ Holds(op[p].srcKey, SourceContent(op[p]))
            \/ Holds(DstKey(op[p]), SourceContent(op[p]))

\* C2: when rename_file fails at the verification step, the old path still
\* holds its original content and no file exists at the new path.
C2_VerifyFailureKeepsSource ==
    \A p \in Procs :
        (Returned(p) /\ op[p].kind = "rename" /\ op[p].result.err \in VerifyErrors) =>
            /\ Holds(op[p].srcKey, SourceContent(op[p]))
            /\ DstKey(op[p]) \notin DOMAIN files

\* C3: after a successful move_file the returned path holds the content the
\* source had before the call, and the source path holds no file unless the
\* returned path is the source itself.
C3_MoveSafety ==
    \A p \in Procs :
        (Returned(p) /\ op[p].kind = "move" /\ op[p].result.ok) =>
            /\ IsFile(op[p].result.path)
            /\ files[Resolve(op[p].result.path).comps] = SourceContent(op[p])
            /\ ~PathEq(op[p].result.path, AbsStr(op[p].srcKey))
                  => op[p].srcKey \notin DOMAIN files

\* a move into another directory has succeeded
C3_Witness ==
    \E p \in Procs :
        /\ Returned(p) /\ op[p].kind = "move" /\ op[p].result.ok
        /\ ~PathEq(op[p].result.path, AbsStr(op[p].srcKey))
        /\ Holds(DstKey(op[p]), SourceContent(op[p]))

\* C4: in rename_file and in move_file, when the destination was written and
\* verified and the removal of the source then failed, the command returns
\* success with the new path.
C4_RemoveFailureIsWarning ==
    \A p \in Procs :
        (Returned(p) /\ op[p].verified /\ op[p].warned) =>
            op[p].result.ok /\ op[p].result.path = op[p].dst

\* C5: no step of rename_file or move_file removes the source file unless
\* the destination was written and its re-read compared equal before.
C5_RemoveOnlyAfterVerify ==
    [][\A p \in Procs :
          (/\ op[p].kind \in {"rename", "move"}
           /\ op[p].srcKey \in DOMAIN files
           /\ op[p].srcKey \notin DOMAIN files') => op[p].verified]_vars

\* the command of task p is between its first read and its return
InProgress(p) == op[p].pc \in {"read", "write", "verify", "remove"}

\* C6: a scan that runs while a rename_file or move_file is in progress never
\* lists the destination file before it was written and verified.
C6_ScanSeesOnlyVerified ==
    [][(\E directory \in ScanDirs : list_excalidraw_files(directory)) =>
          \A p \in Procs : \A f \in scanned'.files :
              (/\ InProgress(p)
               /\ Resolve(f.path).comps = DstKey(op[p])
               /\ DstKey(op[p]) \notin DOMAIN op[p].pre) => op[p].verified]_vars

\* a file other than the source was at the destination when the command
\* was called
DestinationTaken(o) ==
    /\ HadSource(o)
    /\ o.dst # NoPath
    /\ DstKey(o) \in DOMAIN o.pre
    /\ DstKey(o) # o.srcKey

\* C7: when a file other than the source already exists at the computed
\* destination path, rename_file and move_file return an error and change
\* nothing on disk.
C7_CollisionRejected ==
    \A p \in Procs :
        (op[p].kind \in {"rename", "move"} /\ DestinationTaken(op[p])) =>
            /\ op[p].pc = "done"
            /\ ~op[p].result.ok
            /\ files = op[p].pre

\* a command was rejected because another file held its destination
C7_Witness ==
    \E p \in Procs :
        /\ Returned(p) /\ DestinationTaken(op[p])
        /\ op[p].result.err = "already_exists"
        /\ Holds(DstKey(op[p]), op[p].pre[DstKey(op[p])])

\* validate_path has been called
Called == vp # NoCall

\* some component of the input path is ".." or "~"
HasTraversalComponent(path) ==
    \E i \in 1..Len(Segments(path)) : Segments(path)[i] \in {PARENTDIR, <<TILDE>>}

\* C8: for every input path with a component equal to ".." or "~", and for
\* every choice of sandbox root, validate_path returns an error.
C8_TraversalComponentRejected ==
    (Called /\ HasTraversalComponent(vp.path)) => ~vp.result.ok

\* the canonical form of the path lies under the canonical form of the root
UnderRoot(path, root) ==
    /\ Canonicalize(path).ok
    /\ StartsWith(Canonicalize(path).path, Canonicalize(root).path)

\* C9: with a sandbox root, validate_path succeeds for every path under the
\* root and returns a path that starts with the canonical root; it fails for
\* every path whose canonical form is outside the root.
C9_SandboxContainment ==
    (Called /\ vp.base.some /\ Canonicalize(vp.base.path).ok) =>
        /\ UnderRoot(vp.path, vp.base.path) =>
              /\ vp.result.ok
              /\ StartsWith(vp.result.path, Canonicalize(vp.base.path).path)
        /\ (Canonicalize(vp.path).ok /\ ~UnderRoot(vp.path, vp.base.path)) =>
              ~vp.result.ok

\* ".." or "~" occurs in the path, and only inside longer names
OnlyInsideLongerNames(path) ==
    /\ Suspicious(path)
    /\ ~HasTraversalComponent(path)
    /\ ~HasTraversalComponent(Canonicalize(path).path)

\* C10: an existing path in which ".." or "~" occurs only as part of a longer
\* file or folder name is accepted by validate_path.
C10_LongerNamesAccepted ==
    (Called /\ ~vp.base.some /\ Canonicalize(vp.path).ok
        /\ OnlyInsideLongerNames(vp.path)) => vp.result.ok

\* C11: when canonicalization fails because the path does not exist yet,
\* validate_path accepts the path unchanged if it is relative and has no ".."
\* or "~" component, and returns an error in every other case.
C11_MissingRelativeAccepted ==
    (Called /\ ~Canonicalize(vp.path).ok) =>
        IF ~IsAbsolute(vp.path) /\ ~HasTraversalComponent(vp.path)
        THEN vp.result.ok /\ vp.result.path = vp.path
        ELSE ~vp.result.ok

\* C12: every filesystem operation of a command handler takes as its path a
\* value produced by validate_path, never the raw string of the caller: the
\* path a command is about to read is the path validate_path returns for it.
C12_ReadsValidatedPath ==
    \A p \in Procs :
        (op[p].kind \in {"rename", "move"} /\ op[p].pc = "read") =>
            /\ validate_path(op[p].src, None).ok
            /\ op[p].src = validate_path(op[p].src, None).path

\* ------------------------------------------------ safe_path_join on its own

\* longest raw name handed to safe_path_join
MaxNameLen == 3

NameTokens == {"a", DOT, SEP, BSL}

RawNames ==
    UNION {[1..n -> NameTokens] : n \in 0..MaxNameLen}

JoinBases == {PathD, PathE, <<SEP>>}

\* safe_path_join(base, file_name) called on its own
SafePathJoinCall(base, file_name) ==
    /\ call' = [fn |-> "safe_path_join", args |-> <<base, file_name>>,
                result |-> safe_path_join(base, file_name)]
    /\ UNCHANGED <<files, dirs, op, scanned, vp, calls, log, watch>>

NextJoin ==
    \E base \in JoinBases, file_name \in RawNames :
        SafePathJoinCall(base, file_name)

SpecJoin == Init /\ [][NextJoin]_vars

\* C13: for every base directory and every raw name, safe_path_join either
\* fails (when the sanitized name is empty) or returns a path whose parent is
\* exactly the base directory and whose final component holds no "/", no "\"
\* and no "..".
C13_JoinStaysDirectlyUnderBase ==
    (call.fn = "safe_path_join") =>
        LET base == call.args[1]
            file_name == call.args[2]
            joined == call.result.path
        IN  IF file_name = <<>> THEN ~call.result.ok
            ELSE /\ call.result.ok
                 /\ HasParent(joined)
                 /\ PathEq(Parent(joined), base)
                 /\ FileName(joined) # NoneName
                 /\ ~Contains(FileName(joined), <<SEP>>)
                 /\ ~Contains(FileName(joined), <<BSL>>)
                 /\ ~Contains(FileName(joined), PARENTDIR)

\* ------------------------------------- read_file, save_file, delete_file

\* contents that are Excalidraw documents: the files of the tree, "doc" and
\* the default document of create_new_file
ValidDocuments == {"c1", "c2", "c3", "c4", "doc", "default"}

\* serde_json::from_str(content): what the checks look at in the parsed value
JsonOf(content) ==
    CASE content \in ValidDocuments ->
            [parses |-> TRUE, object |-> TRUE, type |-> "excalidraw",
             version |-> "number", elements |-> "array"]
      [] content = "not_object" ->
            [parses |-> TRUE, object |-> FALSE, type |-> "missing",
             version |-> "missing", elements |-> "missing"]
      [] content = "wrong_type" ->
            [parses |-> TRUE, object |-> TRUE, type |-> "other",
             version |-> "number", elements |-> "array"]
      [] content = "bad_version" ->
            [parses |-> TRUE, object |-> TRUE, type |-> "excalidraw",
             version |-> "string", elements |-> "array"]
      [] content = "bad_elements" ->
            [parses |-> TRUE, object |-> TRUE, type |-> "excalidraw",
             version |-> "number", elements |-> "missing"]
      [] OTHER ->
            [parses |-> FALSE, object |-> FALSE, type |-> "missing",
             version |-> "missing", elements |-> "missing"]

\* the checks with the elements field looked at before the version field
CheckJsonElementsFirst(json) ==
    IF ~json.parses THEN "invalid_json"
    ELSE IF ~json.object THEN "not_object"
    ELSE IF json.type # "excalidraw" THEN "bad_type"
    ELSE IF json.elements # "array" THEN "bad_elements"
    ELSE IF json.version # "number" THEN "bad_version"
    ELSE "ok"

\* the checks of validate_excalidraw_content on the parsed value, in the
\* order of the code
CheckJson(json) ==
    IF ~json.parses THEN "invalid_json"
    ELSE IF ~json.object THEN "not_object"
    ELSE IF json.type # "excalidraw" THEN "bad_type"
    ELSE IF json.version # "number" THEN "bad_version"
    ELSE IF json.elements # "array" THEN "bad_elements"
    ELSE "ok"

validate_excalidraw_content(content) == CheckJson(JsonOf(content))

\* let validated_path = security::validate_path(path, None)?;
\* security::validate_excalidraw_file(&validated_path)?;
FilePlan(file_path) ==
    LET validated_path == validate_path(file_path, None)
    IN  IF ~validated_path.ok THEN Err(validated_path.err)
        ELSE IF validate_excalidraw_file(validated_path.path) # "ok"
             THEN Err(validate_excalidraw_file(validated_path.path))
        ELSE Ok(validated_path.path)

\* delete_file without the check of the extension
DeletePlanAnyExtension(file_path) ==
    LET validated_path == validate_path(file_path, None)
    IN  IF ~validated_path.ok THEN Err(validated_path.err)
        ELSE IF ~Exists(validated_path.path) THEN Err("not_found")
        ELSE Ok(validated_path.path)

\* delete_file up to the removal
DeletePlan(file_path) ==
    LET validated_path == validate_path(file_path, None)
    IN  IF ~validated_path.ok THEN Err(validated_path.err)
        ELSE IF ~Exists(validated_path.path) THEN Err("not_found")
        ELSE IF validate_excalidraw_file(validated_path.path) # "ok"
             THEN Err(validate_excalidraw_file(validated_path.path))
        ELSE Ok(validated_path.path)

\* what a call leaves for the next one to be compared with
Summary(o) ==
    [kind |-> o.kind, src |-> o.src, content |-> o.content,
     ok |-> o.result.ok, fault |-> o.fault]

\* a handler that runs to its end in one step and returns record o; log keeps
\* the save_file call that returned Ok just before it, if there is one
Handle(p, o) ==
    /\ op[p].pc \in {"idle", "done"}
    /\ op' = [op EXCEPT ![p] = o]
    /\ log' = IF op[p].pc = "done" /\ op[p].kind = "save_file" /\ op[p].result.ok
              THEN <<Summary(op[p])>> ELSE <<>>
    /\ UNCHANGED <<dirs, scanned, vp, calls, call, watch>>

read_file(p, file_path) ==
    LET plan == FilePlan(file_path)
        o == [Begin("read_file", file_path, Resolve(file_path).comps)
                EXCEPT !.dst = plan.path]
    IN  /\ UNCHANGED files
        /\ \/ /\ ~plan.ok
              /\ Handle(p, Return(o, Err(plan.err)))
           \/ /\ plan.ok /\ IsFile(plan.path)
              /\ LET content == files[Resolve(plan.path).comps]
                 IN  Handle(p, IF validate_excalidraw_content(content) # "ok"
                               THEN Return(o, Err(validate_excalidraw_content(content)))
                               ELSE Return([o EXCEPT !.content = content],
                                           Ok(plan.path)))
           \/ /\ plan.ok
              /\ Handle(p, Return([o EXCEPT !.fault = TRUE], Err("read_failed")))

save_file(p, file_path, content) ==
    LET plan == FilePlan(file_path)
        o == [Begin("save_file", file_path, Resolve(file_path).comps)
                EXCEPT !.dst = plan.path, !.content = content]
    IN  \/ /\ ~plan.ok
           /\ Handle(p, Return(o, Err(plan.err)))
           /\ UNCHANGED files
        \/ /\ plan.ok /\ validate_excalidraw_content(content) # "ok"
           /\ Handle(p, Return(o, Err(validate_excalidraw_content(content))))
           /\ UNCHANGED files
        \/ /\ plan.ok /\ validate_excalidraw_content(content) = "ok"
           /\ \E outcome \in WriteOutcomes :
                 /\ outcome # "error" => WriteTarget(plan.path).ok
                 /\ files' = FilesAfterWrite(plan.path, content, outcome)
                 /\ Handle(p, Return([o EXCEPT !.fault = (outcome # "ok")],
                                     IF WriteReturnsOk(outcome) THEN Ok(plan.path)
                                     ELSE Err("write_failed")))

\* the answer of the save dialog: cancelled, or the path the user picked
DialogChoices ==
    { None, Some(PathJoin(PathD, <<"export", DOT, "excalidraw">>)) }

save_file_as(p, choice, content) ==
    LET o == [Begin("save_file_as", choice.path, Resolve(choice.path).comps)
                EXCEPT !.dst = choice.path, !.content = content]
    IN  \/ /\ ~choice.some
           /\ Handle(p, Return(o, Ok(NoPath)))
           /\ UNCHANGED files
        \/ /\ choice.some
           /\ \E outcome \in WriteOutcomes :
                 /\ outcome # "error" => WriteTarget(choice.path).ok
                 /\ files' = FilesAfterWrite(choice.path, content, outcome)
                 /\ Handle(p, Return([o EXCEPT !.fault = (outcome # "ok")],
                                     IF WriteReturnsOk(outcome) THEN Ok(choice.path)
                                     ELSE Err("write_failed")))

delete_file(p, file_path) ==
    LET plan == DeletePlan(file_path)
        o == [Begin("delete_file", file_path, Resolve(file_path).comps)
                EXCEPT !.dst = plan.path]
    IN  \/ /\ ~plan.ok
           /\ Handle(p, Return(o, Err(plan.err)))
           /\ UNCHANGED files
        \/ /\ plan.ok /\ IsFile(plan.path)
           /\ files' = RemoveFile(files, Resolve(plan.path).comps)
           /\ Handle(p, Return(o, Ok(plan.path)))
        \/ /\ plan.ok
           /\ Handle(p, Return([o EXCEPT !.fault = TRUE], Err("remove_failed")))
           /\ UNCHANGED files

\* paths handed to read_file, save_file and delete_file
FilePaths ==
    { PathJoin(PathL, NOTE), PathJoin(PathD, README),
      PathJoin(PathD, MISSING), PathD }

\* contents handed to save_file
Documents ==
    { "doc", "not_json", "not_object", "wrong_type", "bad_version",
      "bad_elements" }

\* contents handed to save_file_as
ExportedDocuments == { "doc", "not_json" }

NextFiles ==
    \/ \E p \in Procs, file_path \in FilePaths : read_file(p, file_path)
    \/ \E p \in Procs, file_path \in FilePaths, content \in Documents :
          save_file(p, file_path, content)
    \/ \E p \in Procs, choice \in DialogChoices, content \in ExportedDocuments :
          save_file_as(p, choice, content)
    \/ \E p \in Procs, file_path \in FilePaths : delete_file(p, file_path)

SpecFiles == Init /\ [][NextFiles]_vars

\* C14: delete_file removes a file only if the validated (link-resolved) path
\* exists and its extension is exactly "excalidraw"; in every other case it
\* returns an error and removes nothing.
C14_DeleteOnlyExcalidraw ==
    \A p \in Procs :
        (op[p].kind = "delete_file" /\ op[p].pc = "done") =>
            LET o == op[p]
                name == o.srcKey[Len(o.srcKey)]
            IN  IF o.result.ok
                THEN /\ o.srcKey \in DOMAIN o.pre
                     /\ LastDot(name) > 0
                     /\ SubSeq(name, LastDot(name) + 1, Len(name)) = EXCALIDRAW
                     /\ files = RemoveFile(o.pre, o.srcKey)
                ELSE files = o.pre

\* a document reached through the link has been deleted
C14_Witness ==
    \E p \in Procs :
        /\ op[p].kind = "delete_file" /\ op[p].pc = "done" /\ op[p].result.ok
        /\ op[p].src = PathJoin(PathL, NOTE)
        /\ op[p].srcKey = Append(DirE, NOTE)
        /\ op[p].srcKey \notin DOMAIN files

\* C19: for every content b that passes validate_excalidraw_content and every
\* path on which save_file(path, b) succeeds, an immediately following
\* read_file(path) succeeds and returns exactly b (the write having stored
\* what it was given and the read not being failed by the file system).
C19_SaveThenReadRoundTrip ==
    \A p \in Procs :
        ( /\ op[p].kind = "read_file" /\ op[p].pc = "done"
          /\ log # <<>>
          /\ log[1].kind = "save_file" /\ log[1].ok
          /\ log[1].src = op[p].src
          /\ validate_excalidraw_content(log[1].content) = "ok"
          /\ ~log[1].fault /\ ~op[p].fault )
        => (op[p].result.ok /\ op[p].content = log[1].content)

\* "doc" was saved over the document behind the link and read back
C19_Witness ==
    \E p \in Procs :
        /\ op[p].kind = "read_file" /\ op[p].pc = "done" /\ op[p].result.ok
        /\ log # <<>> /\ log[1].src = op[p].src /\ ~log[1].fault
        /\ log[1].content = "doc" /\ op[p].content = "doc"
        /\ InitFiles[op[p].srcKey] # "doc"

\* C20: no command writes caller-supplied document content to disk unless the
\* content passes validate_excalidraw_content and the target path has the
\* "excalidraw" extension; this holds for save_file and save_file_as.
C20_OnlyValidatedContentWritten ==
    \A p \in Procs :
        ( /\ op[p].kind \in {"save_file", "save_file_as"}
          /\ op[p].pc = "done"
          /\ files # op[p].pre )
        => /\ validate_excalidraw_content(op[p].content) = "ok"
           /\ HasExtension(op[p].dst)
           /\ Extension(op[p].dst) = EXCALIDRAW

\* ---------------------------------------------------------- create_new_file

\* if counter > 100
MaxAttempts == 100

\* serde_json::to_string_pretty(&default_content)
DefaultContent == "default"

\* stem.trim_end_matches(".excalidraw")
RECURSIVE TrimExcalidraw(_)
TrimExcalidraw(stem) ==
    IF Len(stem) >= 2 /\ SubSeq(stem, Len(stem) - 1, Len(stem)) = <<DOT>> \o EXCALIDRAW
    THEN TrimExcalidraw(SubSeq(stem, 1, Len(stem) - 2))
    ELSE stem

\* format!("{}-{}.excalidraw", base_stem, counter)
NumberedName(base_stem, counter) ==
    base_stem \o <<"-", ToString(counter), DOT>> \o EXCALIDRAW

\* the limit of the loop taken one variant too late
AttemptsExhaustedLate(counter) == counter > MaxAttempts + 1

\* if counter > 100 { return Err(..) }
AttemptsExhausted(counter) == counter > MaxAttempts

\* the loop taking the last free name instead of the first
UniqueNameLastFree(dir_path, base_stem) ==
    LET free == {c \in 1..(MaxAttempts + 2) :
                    /\ ~AttemptsExhausted(c)
                    /\ ~Exists(PathJoin(dir_path, NumberedName(base_stem, c)))}
        last == CHOOSE c \in free : \A d \in free : c >= d
    IN  IF free = {} THEN Err("no_unique_name")
        ELSE Ok(PathJoin(dir_path, NumberedName(base_stem, last)))

\* loop { path = dir_path.join(&new_name); if !path.exists() { break; }
\*        counter += 1; if counter > 100 { return Err(..) } }
\* the loop stops at the first counter, of those it reaches before the limit,
\* whose name is free
UniqueName(dir_path, base_stem) ==
    LET free == {c \in 1..(MaxAttempts + 2) :
                    /\ ~AttemptsExhausted(c)
                    /\ ~Exists(PathJoin(dir_path, NumberedName(base_stem, c)))}
        first == CHOOSE c \in free : \A d \in free : c <= d
    IN  IF free = {} THEN Err("no_unique_name")
        ELSE Ok(PathJoin(dir_path, NumberedName(base_stem, first)))

\* create_new_file up to the write: the path the file will be written to
CreatePlan(directory, file_name) ==
    LET validated_dir == validate_path(directory, None)
        joined == safe_path_join(validated_dir.path, file_name)
    IN  IF ~validated_dir.ok THEN Err(validated_dir.err)
        ELSE IF ~IsDir(validated_dir.path) THEN Err("not_a_directory")
        ELSE IF ~joined.ok THEN Err(joined.err)
        ELSE IF ~Exists(joined.path) THEN Ok(joined.path)
        ELSE IF FileName(joined.path) = NoneName THEN Err("invalid_file_name")
        ELSE UniqueName(directory, TrimExcalidraw(FileStem(joined.path)))

create_new_file(p, directory, file_name) ==
    LET plan == CreatePlan(directory, file_name)
        o == [Begin("create_new_file", directory, NoPath)
                EXCEPT !.dst = plan.path, !.name = file_name,
                       !.content = DefaultContent]
    IN  /\ op[p].pc = "idle"
        /\ \/ /\ ~plan.ok
              /\ op' = [op EXCEPT ![p] = Return(o, Err(plan.err))]
              /\ UNCHANGED files
           \/ /\ plan.ok
              /\ \E outcome \in WriteOutcomes, read_back \in BOOLEAN :
                    /\ outcome # "error" => WriteTarget(plan.path).ok
                    /\ files' = FilesAfterWrite(plan.path, DefaultContent, outcome)
                    /\ op' = [op EXCEPT ![p] =
                                IF WriteReturnsOk(outcome)
                                THEN Return([o EXCEPT !.fault = (outcome # "ok"),
                                                      !.warned = ~read_back],
                                            Ok(plan.path))
                                ELSE Return([o EXCEPT !.fault = TRUE],
                                            Err("write_failed"))]
        /\ UNCHANGED <<dirs, scanned, vp, call, watch>>

\* directory /d holding "note" and its first k - 1 numbered variants
Populated(k) ==
    LET names == (IF k >= 1 THEN {<<"note">>} ELSE {})
                 \cup {NumberedName(<<"note">>, i) : i \in 1..(k - 1)}
    IN  [key \in {Append(DirD, n) : n \in names} |-> "c1"]

\* nothing there, the name taken, one variant taken, one variant left free,
\* the name and every variant taken
PopulationSizes == {0, 1, 2, MaxAttempts, MaxAttempts + 1}

CreateDirs == { PathD, PathL, PathJoin(PathD, <<"note">>), <<SEP, "missing">> }

CreateNames == { <<"note">>, NOTE, <<>> }

InitCreate ==
    /\ files \in {Populated(k) : k \in PopulationSizes}
    /\ dirs = {<<>>, DirD, DirE}
    /\ op = [p \in Procs |-> Idle]
    /\ scanned = NoScan
    /\ vp = NoCall
    /\ calls = 0
    /\ call = NoPureCall
    /\ log = <<>>
    /\ watch = NoWatch

\* one call of create_new_file out of MaxCalls
CreateCall(p, directory, file_name) ==
    /\ calls < MaxCalls
    /\ calls' = calls + 1
    /\ create_new_file(p, directory, file_name)
    /\ UNCHANGED log

NextCreate ==
    \/ \E p \in Procs, directory \in CreateDirs, file_name \in CreateNames :
          CreateCall(p, directory, file_name)
    \/ \E p \in Procs : Finish(p)

SpecCreate == InitCreate /\ [][NextCreate]_vars

\* create_new_file has returned to task p
Created(p) == op[p].kind = "create_new_file" /\ op[p].pc = "done"

\* the numbered variants of a name in directory `directory`
Variants(directory, stem) ==
    {PathJoin(directory, NumberedName(stem, i)) : i \in 1..MaxAttempts}

\* C18: the uniquify loop of create_new_file tries at most the 100 numbered
\* variants stem-1 .. stem-100: a file it writes is the requested one or one
\* of these and was not there before, and when the requested name and all
\* 100 variants already exist it returns an error and writes no file.
C18_UniquifyBounded ==
    \A p \in Procs :
        Created(p) =>
            LET o == op[p]
                dir == Resolve(o.src).comps
                stem == TrimExcalidraw(FileStem(PathJoin(o.src, o.name)))
            IN  /\ (files # o.pre) =>
                      /\ \/ PathEq(o.dst, PathJoin(AbsStr(dir), o.name))
                         \/ o.dst \in Variants(o.src, stem)
                      /\ DstKey(o) \notin DOMAIN o.pre
                /\ (o.result.err = "no_unique_name") =>
                      /\ files = o.pre
                      /\ Exists(PathJoin(o.src, o.name))
                      /\ \A v \in Variants(o.src, stem) : Exists(v)
                /\ ( /\ o.name # <<>> /\ Resolve(o.src).ok /\ dir \in dirs
                     /\ Append(dir, o.name) \in DOMAIN o.pre
                     /\ \A i \in 1..MaxAttempts :
                           Append(dir, NumberedName(stem, i)) \in DOMAIN o.pre )
                   => (o.result.err = "no_unique_name" /\ files = o.pre)

\* the name and its 100 variants were taken and the call gave up
C18_Witness ==
    \E p \in Procs :
        /\ Created(p)
        /\ op[p].result.err = "no_unique_name"
        /\ op[p].name = <<"note">>
        /\ Cardinality(DOMAIN op[p].pre) = MaxAttempts + 1

\* path is listed by list_excalidraw_files of the directory that holds it
Listed(path) ==
    LET canonical == Canonicalize(path)
    IN  /\ canonical.ok
        /\ \E f \in collect_excalidraw_files_recursive(Parent(canonical.path)) :
              PathEq(f.path, canonical.path)

\* C16: every path returned by a successful create_new_file, rename_file or
\* move_file has the extension "excalidraw", so the file is accepted by
\* validate_excalidraw_file and is returned by a following
\* list_excalidraw_files of its directory.
C16_ReturnedPathsAreDocuments ==
    \A p \in Procs :
        ( /\ op[p].pc = "done" /\ op[p].result.ok
          /\ op[p].kind \in {"create_new_file", "rename", "move"} )
        => /\ validate_excalidraw_file(op[p].result.path) = "ok"
           /\ Listed(op[p].result.path)

\* C17: create_new_file returns the path as success only after the bytes
\* read back from the new file were compared with the default content it
\* wrote and found equal; it returns an error when they differ or cannot be
\* read back.
C17_ReadBackCompared ==
    \A p \in Procs :
        (Created(p) /\ op[p].result.ok) =>
            /\ ~op[p].warned
            /\ Holds(DstKey(op[p]), DefaultContent)

\* ------------------------------------- create, create again, then rename

\* the commands issued, in this order, on a directory that starts empty
Scenario == <<"create_new_file", "create_new_file", "rename">>

\* the command that comes next, "none" after the last one
Upcoming ==
    IF Len(log) < Len(Scenario) THEN Scenario[Len(log) + 1] ELSE "none"

ScenarioCreate(p) ==
    /\ Upcoming = "create_new_file"
    /\ create_new_file(p, PathD, <<"note">>)
    /\ UNCHANGED <<calls, log>>

\* rename_file of a path that an earlier create_new_file returned
ScenarioRename(p, old_path) ==
    /\ Upcoming = "rename"
    /\ \E i \in 1..Len(log) : log[i].result.ok /\ log[i].result.path = old_path
    /\ RenameStart(p, old_path, <<"draft">>)

\* the command returns and its record is appended to the history
Record(p) ==
    /\ op[p].pc = "done"
    /\ log' = Append(log, op[p])
    /\ op' = [op EXCEPT ![p] = Idle]
    /\ UNCHANGED <<files, dirs, scanned, vp, calls, call, watch>>

InitEmpty ==
    /\ files = Populated(0)
    /\ dirs = {<<>>, DirD, DirE}
    /\ op = [p \in Procs |-> Idle]
    /\ scanned = NoScan
    /\ vp = NoCall
    /\ calls = 0
    /\ call = NoPureCall
    /\ log = <<>>
    /\ watch = NoWatch

NextScenario ==
    \/ \E p \in Procs : ScenarioCreate(p)
    \/ \E p \in Procs, old_path \in {PathJoin(PathD, n) :
                                      n \in {<<"note">>, NOTE,
                                             NumberedName(<<"note">>, 1)}} :
          ScenarioRename(p, old_path)
    \/ \E p \in Procs : RenameRead(p)
    \/ \E p \in Procs : RenameWrite(p)
    \/ \E p \in Procs : RenameVerify(p)
    \/ \E p \in Procs : RenameRemove(p)
    \/ \E p \in Procs : Record(p)

SpecScenario == InitEmpty /\ [][NextScenario]_vars

\* C15: starting from an empty directory d, create_new_file(d, "note")
\* returns d/note.excalidraw; a second create_new_file(d, "note") returns
\* d/note-1.excalidraw; then rename_file of the first path to "draft" returns
\* d/draft.excalidraw and the first path no longer exists.
C15_CreateCreateRename ==
    /\ (Len(log) >= 1 /\ log[1].result.ok) =>
          PathEq(log[1].result.path, PathJoin(PathD, NOTE))
    /\ (Len(log) >= 2 /\ log[1].result.ok /\ log[2].result.ok) =>
          PathEq(log[2].result.path,
                 PathJoin(PathD, NumberedName(<<"note">>, 1)))
    /\ ( /\ Len(log) >= 3 /\ log[1].result.ok /\ log[2].result.ok
         /\ log[3].src = log[1].result.path /\ ~log[3].fault
         /\ log[3].result.err # "read_failed" /\ log[3].result.err # "write_failed" ) =>
          /\ log[3].result.ok
          /\ PathEq(log[3].result.path, PathJoin(PathD, DRAFT))
          /\ ~Exists(log[1].result.path)

\* ------------------------------------ validate_excalidraw_content on its own

\* what a text can be: not JSON at all, a JSON value that is no object, or an
\* object whose three fields are each missing or hold some kind of value
FieldKinds == {"missing", "null", "number", "string", "array", "object"}

TypeKinds == {"missing", "null", "number", "excalidraw", "Excalidraw", "other"}

JsonValues ==
    { [parses |-> FALSE, object |-> FALSE, type |-> "missing",
       version |-> "missing", elements |-> "missing", extra |-> FALSE] }
    \cup
    { [parses |-> TRUE, object |-> FALSE, type |-> "missing",
       version |-> "missing", elements |-> "missing", extra |-> FALSE] }
    \cup
    [parses : {TRUE}, object : {TRUE}, type : TypeKinds,
     version : FieldKinds, elements : FieldKinds, extra : BOOLEAN]

\* validate_excalidraw_content called on its own on a text that parses to json
ContentCall(json) ==
    /\ call = NoPureCall
    /\ call' = [fn |-> "validate_excalidraw_content", args |-> <<json>>,
                result |-> IF CheckJson(json) = "ok" THEN Ok(NoPath)
                           ELSE Err(CheckJson(json))]
    /\ UNCHANGED <<files, dirs, op, scanned, vp, calls, log, watch>>

NextContent == \E json \in JsonValues : ContentCall(json)

SpecContent == Init /\ [][NextContent]_vars

\* C21: validate_excalidraw_content succeeds exactly when the content parses
\* as a JSON object whose type is the string "excalidraw", whose version is a
\* number and whose elements is an array, whatever else the object holds;
\* otherwise the error is that of the first failing check in the order parse,
\* object, type, version, elements.
C21_ContentChecksInOrder ==
    (call.fn = "validate_excalidraw_content") =>
        LET json == call.args[1]
            failing ==
                <<~json.parses, ~json.object, json.type # "excalidraw",
                  json.version # "number", json.elements # "array">>
            errors ==
                <<"invalid_json", "not_object", "bad_type", "bad_version",
                  "bad_elements">>
        IN  /\ call.result.ok <=> (\A i \in 1..5 : ~failing[i])
            /\ \A i \in 1..5 :
                  (failing[i] /\ \A j \in 1..(i - 1) : ~failing[j])
                      => call.result.err = errors[i]

\* an object with extra fields whose version and elements are both wrong was
\* reported for its version
C21_Witness ==
    /\ call.fn = "validate_excalidraw_content"
    /\ call.args[1].type = "excalidraw" /\ call.args[1].extra
    /\ call.args[1].version = "string" /\ call.args[1].elements = "missing"
    /\ call.result.err = "bad_version"

\* --------------------------- validate_excalidraw_file and the fix-up alone

ExtTokens == {"a", DOT, "excalidraw", "EXCALIDRAW", "txt"}

\* the last segment of the paths handed to the two functions
ExtNames == UNION {[1..n -> ExtTokens] : n \in 1..MaxNameLen}

\* validate_excalidraw_file(base/name) called on its own
ValidateFileCall(base, name) ==
    /\ call = NoPureCall
    /\ call' = [fn |-> "validate_excalidraw_file", args |-> <<base, name>>,
                result |-> LET r == validate_excalidraw_file(PathJoin(base, name))
                           IN  IF r = "ok" THEN Ok(PathJoin(base, name)) ELSE Err(r)]
    /\ UNCHANGED <<files, dirs, op, scanned, vp, calls, log, watch>>

\* the extension fix-up of rename_file applied on its own to base/name
EnsureExtensionCall(base, name) ==
    /\ call = NoPureCall
    /\ call' = [fn |-> "ensure_extension", args |-> <<base, name>>,
                result |-> Ok(EnsureExtension(PathJoin(base, name)))]
    /\ UNCHANGED <<files, dirs, op, scanned, vp, calls, log, watch>>

NextExt ==
    \/ \E base \in JoinBases, name \in ExtNames : ValidateFileCall(base, name)
    \/ \E base \in JoinBases, name \in ExtNames : EnsureExtensionCall(base, name)

SpecExt == Init /\ [][NextExt]_vars

\* s ends with the tokens of t
EndsWith(s, t) ==
    Len(s) >= Len(t) /\ SubSeq(s, Len(s) - Len(t) + 1, Len(s)) = t

\* C22: validate_excalidraw_file succeeds only when the extension of the path
\* is exactly "excalidraw", in that case of letters; it fails with the
\* wrong-extension error for any other extension and with the distinct
\* no-extension error when the path has no extension.
C22_ExtensionExact ==
    (call.fn = "validate_excalidraw_file") =>
        LET name == call.args[2]
            noName == name \in {CURDIR, PARENTDIR}
            dotted == \E i \in 2..Len(name) : name[i] = DOT
        IN  /\ call.result.ok <=>
                  (~noName /\ Len(name) >= 3 /\ EndsWith(name, <<DOT>> \o EXCALIDRAW))
            /\ (call.result.err = "no_extension") <=> (noName \/ ~dotted)
            /\ (call.result.err = "wrong_extension") <=>
                  (~noName /\ dotted /\ ~EndsWith(name, <<DOT>> \o EXCALIDRAW))

\* a name whose extension differs from "excalidraw" only by case was refused
\* as a wrong extension
C22_Witness ==
    /\ call.fn = "validate_excalidraw_file"
    /\ call.args[2] = <<"a", DOT, "EXCALIDRAW">>
    /\ call.result.err = "wrong_extension"

\* C23: the extension fix-up of rename_file is idempotent: a path that has
\* the extension "excalidraw" is returned unchanged, and applying the fix-up
\* to its own result changes nothing.
C23_FixUpIdempotent ==
    (call.fn = "ensure_extension") =>
        LET path == PathJoin(call.args[1], call.args[2])
            fixed == call.result.path
        IN  /\ (Len(call.args[2]) >= 3
                /\ EndsWith(call.args[2], <<DOT>> \o EXCALIDRAW)) => fixed = path
            /\ EnsureExtension(fixed) = fixed

\* a path with another extension had it replaced
C23_Witness ==
    /\ call.fn = "ensure_extension"
    /\ call.args[2] = <<"a", DOT, "txt">>
    /\ call.result.path = PathJoin(call.args[1], <<"a", DOT>> \o EXCALIDRAW)

\* --------------------------------------------------------- create_directory

\* a run of blanks
SPACE == " "

\* the name test without directory_name.trim().is_empty()
InvalidDirectoryNameNoTrim(directory_name) ==
    \/ Contains(directory_name, <<SEP>>)
    \/ Contains(directory_name, <<BSL>>)

\* directory_name.contains('/') || directory_name.contains('\\')
\*     || directory_name.trim().is_empty()
InvalidDirectoryName(directory_name) ==
    \/ Contains(directory_name, <<SEP>>)
    \/ Contains(directory_name, <<BSL>>)
    \/ \A i \in 1..Len(directory_name) : directory_name[i] = SPACE

\* create_directory up to fs::create_dir
CreateDirPlan(parent_path, directory_name) ==
    LET validated_parent == validate_path(parent_path, None)
        new_dir_path == safe_path_join(validated_parent.path, directory_name)
    IN  IF ~validated_parent.ok THEN Err(validated_parent.err)
        ELSE IF ~IsDir(validated_parent.path) THEN Err("not_a_directory")
        ELSE IF InvalidDirectoryName(directory_name) THEN Err("invalid_name")
        ELSE IF ~new_dir_path.ok THEN Err(new_dir_path.err)
        ELSE IF Exists(new_dir_path.path) THEN Err("already_exists")
        ELSE Ok(new_dir_path.path)

\* the whole handler; pre keeps the directories there were when it was called
create_directory(p, parent_path, directory_name) ==
    LET plan == CreateDirPlan(parent_path, directory_name)
        o == [Begin("create_directory", parent_path, Resolve(parent_path).comps)
                EXCEPT !.dst = plan.path, !.name = directory_name, !.pre = dirs]
    IN  /\ op[p].pc = "idle"
        /\ calls < MaxCalls
        /\ calls' = calls + 1
        /\ \/ /\ ~plan.ok
              /\ op' = [op EXCEPT ![p] = Return(o, Err(plan.err))]
              /\ UNCHANGED dirs
           \/ /\ plan.ok /\ WriteTarget(plan.path).ok
              /\ dirs' = dirs \cup {WriteTarget(plan.path).comps}
              /\ op' = [op EXCEPT ![p] = Return(o, Ok(plan.path))]
           \/ /\ plan.ok
              /\ op' = [op EXCEPT ![p] =
                           Return([o EXCEPT !.fault = TRUE], Err("create_failed"))]
              /\ UNCHANGED dirs
        /\ UNCHANGED <<files, scanned, vp, call, log, watch>>

DirParents == { PathD, PathL, PathJoin(PathD, NOTE), <<SEP, "missing">> }

DirTokens == {"x", SPACE, SEP, BSL}

DirNames ==
    UNION {[1..n -> DirTokens] : n \in 0..MaxNameLen}
    \cup {CURDIR, PARENTDIR, NOTE, <<"lnk">>}

NextDirs ==
    \/ \E p \in Procs, parent_path \in DirParents, directory_name \in DirNames :
          create_directory(p, parent_path, directory_name)
    \/ \E p \in Procs : Finish(p)

SpecDirs == Init /\ [][NextDirs]_vars

\* C24: create_directory returns an error and creates nothing when the name
\* is empty, whitespace-only or contains "/" or "\", or when a file or a
\* directory already exists at the target path; when it returns success a
\* directory exists at the returned path.
C24_CreateDirectoryGuards ==
    \A p \in Procs :
        (op[p].kind = "create_directory" /\ op[p].pc = "done") =>
            LET o == op[p]
                target == Append(o.srcKey, o.name)
                bad == \/ o.name = <<>>
                       \/ \A i \in 1..Len(o.name) : o.name[i] = SPACE
                       \/ \E i \in 1..Len(o.name) : o.name[i] \in {SEP, BSL}
                taken == \/ target \in o.pre \cup DOMAIN files \cup DOMAIN Links
                         \/ o.name = CURDIR
            IN  /\ (bad \/ taken) => ~o.result.ok
                /\ ~o.result.ok => dirs = o.pre
                /\ o.result.ok =>
                      /\ IsDir(o.result.path)
                      /\ Resolve(o.result.path).comps \notin o.pre
                      /\ dirs = o.pre \cup {Resolve(o.result.path).comps}
                /\ files = InitFiles

\* a name made of blanks only was refused and nothing was created
C24_Witness ==
    \E p \in Procs :
        /\ op[p].kind = "create_directory" /\ op[p].pc = "done"
        /\ op[p].name = <<SPACE, SPACE>>
        /\ op[p].src = PathD
        /\ op[p].result.err = "invalid_name"
        /\ dirs = op[p].pre

\* ------------------------------------------------- the order of file names

\* the characters of the names of the scanned tree, in code point order
Alphabet ==
    <<"-", ".", "N", "_", "a", "b", "c", "d", "e", "f", "i", "k", "l", "m",
      "n", "o", "r", "s", "t", "u", "w", "x">>

Code(ch) == CHOOSE i \in 1..Len(Alphabet) : Alphabet[i] = ch

\* the characters of a token
Spelling(token) ==
    CASE token = "note" -> <<"n", "o", "t", "e">>
      [] token = "Note" -> <<"N", "o", "t", "e">>
      [] token = "draft" -> <<"d", "r", "a", "f", "t">>
      [] token = "readme" -> <<"r", "e", "a", "d", "m", "e">>
      [] token = "txt" -> <<"t", "x", "t">>
      [] token = "excalidraw" ->
            <<"e", "x", "c", "a", "l", "i", "d", "r", "a", "w">>
      [] token = "sub" -> <<"s", "u", "b">>
      [] token = "lnk" -> <<"l", "n", "k">>
      [] OTHER -> <<token>>

\* the characters of a string
RECURSIVE Chars(_)
Chars(s) == IF Len(s) = 0 THEN <<>> ELSE Spelling(s[1]) \o Chars(Tail(s))

\* a.cmp(&b) == Ordering::Less for strings: the first differing character
\* decides, a proper prefix comes first
StrLess(a, b) ==
    LET ca == Chars(a)
        cb == Chars(b)
        shorter == IF Len(ca) < Len(cb) THEN Len(ca) ELSE Len(cb)
        differ == {i \in 1..shorter : ca[i] # cb[i]}
        k == CHOOSE i \in differ : \A j \in differ : i <= j
    IN  IF differ = {} THEN Len(ca) < Len(cb)
        ELSE Code(ca[k]) < Code(cb[k])

\* ------------------------------------ list_excalidraw_files, get_file_tree

\* fs::read_dir(dir) returns Err: dir is no directory, or it cannot be read
ReadDirFails(dir, unreadable) ==
    ~IsDir(dir) \/ Resolve(dir).comps \in unreadable

\* entry.path() for the entries of dir
Entries(dir) == {PathJoin(dir, n) : n \in ReadDir(Resolve(dir).comps)}

\* path.is_file() and path.extension() == Some("excalidraw")
IsDocument(path) ==
    IsFile(path) /\ HasExtension(path) /\ Extension(path) = EXCALIDRAW

\* the recursive walk returns Err: `?` hands the first failing read_dir up
RECURSIVE ScanFails(_, _)
ScanFails(dir, unreadable) ==
    \/ ReadDirFails(dir, unreadable)
    \/ \E e \in Entries(dir) : ~IsFile(e) /\ IsDir(e) /\ ScanFails(e, unreadable)

\* the orders in which read_dir can yield a set of entries
Orders(S) ==
    {s \in [1..Cardinality(S) -> S] :
        \A i, j \in 1..Cardinality(S) : i # j => s[i] # s[j]}

\* the vectors collect_excalidraw_files_recursive(dir, files) can fill:
\* entries in the order read_dir yields them, a directory walked in place
RECURSIVE Walks(_), WalkEntries(_)
WalkEntries(order) ==
    IF Len(order) = 0 THEN {<<>>}
    ELSE LET e == order[1]
             heads == IF IsFile(e)
                      THEN (IF IsDocument(e) THEN {<<ExcalidrawFile(e)>>}
                            ELSE {<<>>})
                      ELSE IF IsDir(e) THEN Walks(e)
                      ELSE {<<>>}
         IN  {h \o t : h \in heads, t \in WalkEntries(Tail(order))}

Walks(dir) == UNION {WalkEntries(order) : order \in Orders(Entries(dir))}

\* the place of x in a vector sorted by name: after every element that is
\* not greater (the sort is stable)
InsertByName(sorted, x) ==
    LET pos == Cardinality({i \in 1..Len(sorted) :
                               ~StrLess(x.name, sorted[i].name)})
    IN  SubSeq(sorted, 1, pos) \o <<x>> \o SubSeq(sorted, pos + 1, Len(sorted))

\* the vector left as the walk filled it
SortByNameForgotten(v) == v

\* files.sort_by(|a, b| a.name.cmp(&b.name))
RECURSIVE SortByName(_)
SortByName(v) ==
    IF Len(v) = 0 THEN <<>>
    ELSE InsertByName(SortByName(SubSeq(v, 1, Len(v) - 1)), v[Len(v)])

\* list_excalidraw_files(directory) with its result, the directories of
\* `unreadable` refusing read_dir
ListCall(directory, unreadable) ==
    /\ call = NoPureCall
    /\ call' \in
          IF ~Exists(directory) \/ ScanFails(directory, unreadable)
          THEN {[fn |-> "list_excalidraw_files", args |-> <<directory, unreadable>>,
                 result |-> Err("scan_failed"), value |-> <<>>]}
          ELSE {[fn |-> "list_excalidraw_files", args |-> <<directory, unreadable>>,
                 result |-> Ok(directory), value |-> SortByName(v)] :
                    v \in Walks(directory)}
    /\ UNCHANGED <<files, dirs, op, scanned, vp, calls, log, watch>>

\* the comparison of two nodes by name alone
NodeBeforeByNameOnly(a, b) == StrLess(a.name, b.name)

\* the closure of sort_by in get_file_tree and build_file_tree returns Less
NodeBefore(a, b) ==
    \/ a.is_directory /\ ~b.is_directory
    \/ a.is_directory = b.is_directory /\ StrLess(a.name, b.name)

\* tree.sort_by(..) on nodes of one directory, whose names all differ
SortNodes(S) ==
    CHOOSE s \in Orders(S) :
        \A i, j \in 1..Len(s) : i < j => NodeBefore(s[i], s[j])

\* the nodes build_file_tree(dir, tree) pushes, children sorted
RECURSIVE build_file_tree(_)
\* the walk keeping a directory only when something was pushed under it
build_file_tree_filter_empty(dir) ==
    {[name |-> FileName(e), path |-> e, is_directory |-> TRUE,
      modified |-> FALSE,
      children |-> [some |-> TRUE, nodes |-> SortNodes(build_file_tree(e))]] :
        e \in {x \in Entries(dir) : IsDir(x) /\ build_file_tree(x) # {}}}
    \cup
    {[name |-> FileName(e), path |-> e, is_directory |-> FALSE,
      modified |-> FALSE, children |-> [some |-> FALSE, nodes |-> <<>>]] :
        e \in {x \in Entries(dir) : ~IsDir(x) /\ IsDocument(x)}}

build_file_tree(dir) ==
    {[name |-> FileName(e), path |-> e, is_directory |-> TRUE,
      modified |-> FALSE,
      children |-> [some |-> TRUE, nodes |-> SortNodes(build_file_tree(e))]] :
        e \in {x \in Entries(dir) : IsDir(x)}}
    \cup
    {[name |-> FileName(e), path |-> e, is_directory |-> FALSE,
      modified |-> FALSE, children |-> [some |-> FALSE, nodes |-> <<>>]] :
        e \in {x \in Entries(dir) : ~IsDir(x) /\ IsDocument(x)}}

\* get_file_tree(directory) with its result
TreeCall(directory, unreadable) ==
    /\ call = NoPureCall
    /\ call' =
          IF ~Exists(directory) \/ ScanFails(directory, unreadable)
          THEN [fn |-> "get_file_tree", args |-> <<directory, unreadable>>,
                result |-> Err("scan_failed"), value |-> <<>>]
          ELSE [fn |-> "get_file_tree", args |-> <<directory, unreadable>>,
                result |-> Ok(directory),
                value |-> SortNodes(build_file_tree(directory))]
    /\ UNCHANGED <<files, dirs, op, scanned, vp, calls, log, watch>>

DirSub == << <<"d">>, <<"sub">> >>
PathSub == AbsStr(DirSub)

\* an empty directory in /e
DirEDraft == << <<"e">>, <<"draft">> >>

\* /d holds two documents whose names differ by case, a text file, a link
\* to /e and /d/sub; "note.excalidraw" is in /d, in /d/sub and in /e
ScanFiles ==
    (Append(DirD, NOTE) :> "c1")
    @@ (Append(DirD, <<"Note", DOT, "excalidraw">>) :> "c1")
    @@ (Append(DirD, README) :> "c5")
    @@ (Append(DirSub, NOTE) :> "c1")
    @@ (Append(DirSub, DRAFT) :> "c2")
    @@ (Append(DirE, NOTE) :> "c4")

ScanRoots ==
    { <<SEP>>, PathD, PathSub, PathE, PathL, <<SEP, "missing">>,
      PathJoin(PathD, NOTE) }

InitScan ==
    /\ files = ScanFiles
    /\ dirs = {<<>>, DirD, DirE, DirSub, DirEDraft}
    /\ op = [p \in Procs |-> Idle]
    /\ scanned = NoScan
    /\ vp = NoCall
    /\ calls = 0
    /\ call = NoPureCall
    /\ log = <<>>
    /\ watch = NoWatch

NextScan ==
    \/ \E directory \in ScanRoots, unreadable \in SUBSET {DirD, DirE, DirSub} :
          ListCall(directory, unreadable)
    \/ \E directory \in ScanRoots, unreadable \in SUBSET {DirD, DirE, DirSub} :
          TreeCall(directory, unreadable)

SpecScan == InitScan /\ [][NextScan]_vars

\* the names there are in the tree
EntryNames ==
    {k[Len(k)] : k \in {x \in DOMAIN files \cup dirs \cup DOMAIN Links : Len(x) > 0}}

\* the paths of the documents at depth one, two or three under directory:
\* every step down goes through a directory
DocumentsUnder(directory) ==
    LET one == {PathJoin(directory, n) : n \in EntryNames}
        two == {PathJoin(d, n) : d \in {x \in one : IsDir(x)}, n \in EntryNames}
        three == {PathJoin(d, n) : d \in {x \in two : IsDir(x)}, n \in EntryNames}
    IN  {path \in one \cup two \cup three : IsDocument(path)}

\* C25: list_excalidraw_files returns exactly the regular files at any depth
\* under the directory whose extension is "excalidraw", each file once, in
\* ascending order of file name (ordinal, case-sensitive), each with
\* modified = false.
C25_ListExactSortedOnce ==
    (call.fn = "list_excalidraw_files" /\ call.result.ok) =>
        LET v == call.value
        IN  /\ {v[i].path : i \in 1..Len(v)} = DocumentsUnder(call.args[1])
            /\ \A i, j \in 1..Len(v) :
                  i # j => Resolve(v[i].path).comps # Resolve(v[j].path).comps
            /\ \A i \in 1..Len(v) :
                  ~v[i].modified /\ v[i].name = FileName(v[i].path)
            /\ \A i, j \in 1..Len(v) :
                  i < j => ~StrLess(v[j].name, v[i].name)

\* C26: when a subdirectory cannot be read during list_excalidraw_files or
\* get_file_tree, the scan skips it and still returns the matching files of
\* the readable part of the tree: a scan whose own directory is readable
\* succeeds, and the listing holds the documents directly in that directory.
C26_UnreadableSubdirectorySkipped ==
    (/\ call.fn \in {"list_excalidraw_files", "get_file_tree"}
     /\ IsDir(call.args[1])
     /\ Resolve(call.args[1]).comps \notin call.args[2]) =>
        /\ call.result.ok
        /\ call.fn = "list_excalidraw_files" =>
              \A n \in EntryNames :
                  IsDocument(PathJoin(call.args[1], n)) =>
                      \E i \in 1..Len(call.value) :
                          call.value[i].path = PathJoin(call.args[1], n)

\* one level of a tree and the levels below it: no file node comes before a
\* directory node, and names ascend among the directories and among the files
RECURSIVE LevelsSorted(_)
LevelsSorted(nodes) ==
    /\ \A i, j \in 1..Len(nodes) :
          i < j =>
              /\ ~(~nodes[i].is_directory /\ nodes[j].is_directory)
              /\ nodes[i].is_directory = nodes[j].is_directory =>
                    ~StrLess(nodes[j].name, nodes[i].name)
    /\ \A i \in 1..Len(nodes) :
          nodes[i].children.some => LevelsSorted(nodes[i].children.nodes)

\* C27: at every level of the tree get_file_tree returns, the top level and
\* each children list, all directory nodes come before all file nodes, and
\* within each group the nodes are in ascending order of name.
C27_TreeLevelsSorted ==
    (call.fn = "get_file_tree" /\ call.result.ok) => LevelsSorted(call.value)

\* the tree of /d: the directories lnk and sub, then the files Note and note;
\* under sub, draft before note
C27_Witness ==
    /\ call.fn = "get_file_tree" /\ call.result.ok
    /\ call.args[1] = PathD
    /\ Len(call.value) = 4
    /\ call.value[1].name = <<"lnk">> /\ call.value[1].is_directory
    /\ call.value[2].name = <<"sub">> /\ call.value[2].is_directory
    /\ call.value[3].name = <<"Note", DOT, "excalidraw">>
    /\ ~call.value[3].is_directory
    /\ call.value[4].name = NOTE
    /\ Len(call.value[2].children.nodes) = 2
    /\ call.value[2].children.nodes[1].name = DRAFT

\* --------------------------------------------------------- watch_directory

\* how many inputs one run takes: calls of watch_directory, events of the
\* file system, errors of a watcher
MaxWatchInputs == 3

\* notify::EventKind as the match of the delivery loop tells the kinds apart
EventKinds == {"Create", "Modify", "Remove", "Access"}

\* the paths of one event: a rename of one document to another; a text file
\* and a file whose extension differs by case
EventPaths ==
    { <<PathJoin(PathD, DRAFT), PathJoin(PathD, NOTE)>>,
      <<PathJoin(PathD, README), PathJoin(PathD, <<"note", DOT, "EXCALIDRAW">>)>> }

WatchDirectories == {PathD, PathE, <<SEP, "missing">>}

\* a call of watch_directory after `*current_dir = Some(path.clone())`: no
\* watcher yet, the channel (tx, rx) empty, no thread
NewSubscription(directory) ==
    [directory |-> directory, pc |-> "create", result |-> Err("pending"),
     watcher |-> "none", channel |-> <<>>, thread |-> "none", todo |-> <<>>,
     received |-> <<>>, later |-> <<>>]

\* the handler starts: state.current_directory is set before anything else
WatchStart(directory) ==
    /\ watch.inputs < MaxWatchInputs
    /\ watch' = [watch EXCEPT !.current_directory = Some(directory),
                              !.subs = Append(@, NewSubscription(directory)),
                              !.inputs = @ + 1]
    /\ UNCHANGED <<files, dirs, op, scanned, vp, calls, call, log>>

\* notify::recommended_watcher(tx).map_err(..)?
WatchCreate(i, fault) ==
    /\ i \in DOMAIN watch.subs
    /\ watch.subs[i].pc = "create"
    /\ watch' =
          IF fault
          THEN [watch EXCEPT !.subs[i].pc = "done",
                             !.subs[i].result = Err("watcher_failed")]
          ELSE [watch EXCEPT !.subs[i].pc = "watch",
                             !.subs[i].watcher = "alive"]
    /\ UNCHANGED <<files, dirs, op, scanned, vp, calls, call, log>>

\* watcher.watch(&path, RecursiveMode::Recursive).map_err(..)?: on an error
\* the handler returns and the watcher is dropped
WatchRegister(i) ==
    /\ i \in DOMAIN watch.subs
    /\ watch.subs[i].pc = "watch"
    /\ watch' =
          IF ~Exists(watch.subs[i].directory)
          THEN [watch EXCEPT !.subs[i].pc = "done",
                             !.subs[i].watcher = "dropped",
                             !.subs[i].result = Err("watch_failed")]
          ELSE [watch EXCEPT !.subs[i].pc = "spawn",
                             !.subs[i].watcher = "watching"]
    /\ UNCHANGED <<files, dirs, op, scanned, vp, calls, call, log>>

\* std::thread::spawn(move || loop {..}): the closure takes rx and app_handle
WatchSpawn(i) ==
    /\ i \in DOMAIN watch.subs
    /\ watch.subs[i].pc = "spawn"
    /\ watch' = [watch EXCEPT !.subs[i].pc = "return",
                              !.subs[i].thread = "recv"]
    /\ UNCHANGED <<files, dirs, op, scanned, vp, calls, call, log>>

\* the handler returns Ok(()) and its watcher lives on, as if it were kept in
\* the application state
WatchReturnKeepsWatcher(i) ==
    /\ i \in DOMAIN watch.subs
    /\ watch.subs[i].pc = "return"
    /\ watch' = [watch EXCEPT !.subs[i].pc = "done",
                              !.subs[i].result = Ok(NoPath)]
    /\ UNCHANGED <<files, dirs, op, scanned, vp, calls, call, log>>

\* Ok(()): the local `watcher` goes out of scope here, and with it the
\* sender of the channel
WatchReturn(i) ==
    /\ i \in DOMAIN watch.subs
    /\ watch.subs[i].pc = "return"
    /\ watch' = [watch EXCEPT !.subs[i].pc = "done",
                              !.subs[i].watcher = "dropped",
                              !.subs[i].result = Ok(NoPath)]
    /\ UNCHANGED <<files, dirs, op, scanned, vp, calls, call, log>>

\* RecursiveMode::Recursive: the event has a path below the directory
Concerns(paths, directory) ==
    \E k \in 1..Len(paths) :
        paths[k] # directory /\ StartsWith(paths[k], directory)

\* the file system changes: every watcher that is watching sends the event
\* into its channel; a subscription whose call returned Ok notes the event
\* among those that came later
FsEvent(kind, paths) ==
    /\ watch.inputs < MaxWatchInputs
    /\ LET e == [id |-> watch.inputs + 1, ok |-> TRUE, kind |-> kind,
                 paths |-> paths]
           after(sub) ==
               [sub EXCEPT
                  !.channel =
                      IF sub.watcher = "watching"
                         /\ Concerns(paths, sub.directory)
                      THEN Append(@, e) ELSE @,
                  !.later =
                      IF sub.pc = "done" /\ sub.result.ok
                         /\ Concerns(paths, sub.directory)
                      THEN Append(@, e) ELSE @]
       IN  watch' = [watch EXCEPT
                       !.subs = [i \in DOMAIN watch.subs |-> after(watch.subs[i])],
                       !.inputs = @ + 1]
    /\ UNCHANGED <<files, dirs, op, scanned, vp, calls, call, log>>

\* a watcher reports an error of its own: Ok(Err(e)) for the loop
WatcherError(i) ==
    /\ i \in DOMAIN watch.subs
    /\ watch.inputs < MaxWatchInputs
    /\ watch.subs[i].watcher = "watching"
    /\ watch' = [watch EXCEPT
                   !.subs[i].channel =
                       Append(@, [id |-> watch.inputs + 1, ok |-> FALSE,
                                  kind |-> "Error", paths |-> <<>>]),
                   !.inputs = @ + 1]
    /\ UNCHANGED <<files, dirs, op, scanned, vp, calls, call, log>>

\* the first arm of the match takes every kind
ForwardedAnyKind(kind) == TRUE

\* kind: EventKind::Create(_) | EventKind::Remove(_) | EventKind::Modify(_)
Forwarded(kind) == kind \in {"Create", "Remove", "Modify"}

\* the loop as it would be with a break in the Ok(Err(e)) arm
WatchRecvBreaksOnError(i) ==
    /\ i \in DOMAIN watch.subs
    /\ watch.subs[i].thread = "recv"
    /\ LET sub == watch.subs[i]
       IN  IF sub.channel # <<>>
           THEN LET msg == Head(sub.channel)
                    go == msg.ok /\ Forwarded(msg.kind) /\ msg.paths # <<>>
                IN  watch' = [watch EXCEPT
                                !.subs[i].channel = Tail(@),
                                !.subs[i].received = Append(@, msg),
                                !.subs[i].todo = IF go THEN msg.paths ELSE <<>>,
                                !.subs[i].thread =
                                    IF ~msg.ok THEN "exited"
                                    ELSE IF go THEN "emit" ELSE "recv"]
           ELSE /\ sub.watcher = "dropped"
                /\ watch' = [watch EXCEPT !.subs[i].thread = "exited"]
    /\ UNCHANGED <<files, dirs, op, scanned, vp, calls, call, log>>

\* rx.recv() in the loop: a message is taken and matched; with the channel
\* empty and its sender dropped recv returns Err and the loop breaks
WatchRecv(i) ==
    /\ i \in DOMAIN watch.subs
    /\ watch.subs[i].thread = "recv"
    /\ LET sub == watch.subs[i]
       IN  IF sub.channel # <<>>
           THEN LET msg == Head(sub.channel)
                    go == msg.ok /\ Forwarded(msg.kind) /\ msg.paths # <<>>
                IN  watch' = [watch EXCEPT
                                !.subs[i].channel = Tail(@),
                                !.subs[i].received = Append(@, msg),
                                !.subs[i].todo = IF go THEN msg.paths ELSE <<>>,
                                !.subs[i].thread = IF go THEN "emit" ELSE "recv"]
           ELSE /\ sub.watcher = "dropped"
                /\ watch' = [watch EXCEPT !.subs[i].thread = "exited"]
    /\ UNCHANGED <<files, dirs, op, scanned, vp, calls, call, log>>

\* what app_handle.emit("file-system-change", &path) hands to the window:
\* the event name and, as payload, the path and nothing else
Notification(path) == [event |-> "file-system-change", payload |-> [path |-> path]]

\* one turn of `for path in paths`
WatchEmit(i) ==
    /\ i \in DOMAIN watch.subs
    /\ watch.subs[i].thread = "emit"
    /\ LET sub == watch.subs[i]
           path == Head(sub.todo)
       IN  watch' = [watch EXCEPT
                       !.emitted =
                           IF HasExtension(path) /\ Extension(path) = EXCALIDRAW
                           THEN Append(@, Notification(path)) ELSE @,
                       !.subs[i].todo = Tail(@),
                       !.subs[i].thread =
                           IF Tail(sub.todo) = <<>> THEN "recv" ELSE "emit"]
    /\ UNCHANGED <<files, dirs, op, scanned, vp, calls, call, log>>

\* a run makes at most MaxWatchInputs subscriptions
SubscriptionIds == 1..MaxWatchInputs

NextWatch ==
    \/ \E directory \in WatchDirectories : WatchStart(directory)
    \/ \E i \in SubscriptionIds, fault \in BOOLEAN : WatchCreate(i, fault)
    \/ \E i \in SubscriptionIds : WatchRegister(i)
    \/ \E i \in SubscriptionIds : WatchSpawn(i)
    \/ \E i \in SubscriptionIds : WatchReturn(i)
    \/ \E kind \in EventKinds, paths \in EventPaths : FsEvent(kind, paths)
    \/ \E i \in SubscriptionIds : WatcherError(i)
    \/ \E i \in SubscriptionIds : WatchRecv(i)
    \/ \E i \in SubscriptionIds : WatchEmit(i)

SpecWatch == Init /\ [][NextWatch]_vars

\* the subscription made last holds the current directory slot: the earlier
\* ones were replaced
Replaced(i) == i < Len(watch.subs)

\* the event is a create, modify or remove of a .excalidraw file below d
ChangeOfDocument(e, d) ==
    /\ e.kind \in {"Create", "Modify", "Remove"}
    /\ \E k \in 1..Len(e.paths) :
          /\ EndsWith(e.paths[k], <<DOT, "excalidraw">>)
          /\ StartsWith(e.paths[k], d)

\* C28: once watch_directory(d) has returned success the subscription stays
\* alive for the rest of the process (unless replaced): a later create,
\* modify or remove of a .excalidraw file under d is never lost, it is in the
\* channel of the subscription or the delivery loop has taken it.
C28_LaterChangesReachTheLoop ==
    \A i \in DOMAIN watch.subs :
        LET sub == watch.subs[i]
        IN  (sub.pc = "done" /\ sub.result.ok /\ ~Replaced(i)) =>
                \A k \in 1..Len(sub.later) :
                    ChangeOfDocument(sub.later[k], sub.directory) =>
                        \/ \E m \in 1..Len(sub.channel) :
                              sub.channel[m] = sub.later[k]
                        \/ \E m \in 1..Len(sub.received) :
                              sub.received[m] = sub.later[k]

\* the paths events carry
EventPathSet == UNION {{paths[k] : k \in 1..Len(paths)} : paths \in EventPaths}

\* how often path was emitted to the window
EmittedCount(path) ==
    Cardinality({k \in 1..Len(watch.emitted) :
                    watch.emitted[k].payload.path = path})

\* how often path is still ahead in a `for path in paths` loop
AheadCount(path) ==
    Cardinality({x \in UNION {{<<i, k>> : k \in 1..Len(watch.subs[i].todo)} :
                                 i \in DOMAIN watch.subs} :
                    watch.subs[x[1]].todo[x[2]] = path})

\* how often path came to a delivery loop in an event of kind Create, Modify
\* or Remove
ReceivedCount(path) ==
    Cardinality({x \in UNION {{<<i, k, m>> : k \in 1..Len(watch.subs[i].received),
                                             m \in 1..2} :
                                 i \in DOMAIN watch.subs} :
                    LET msg == watch.subs[x[1]].received[x[2]]
                    IN  /\ msg.ok
                        /\ msg.kind \in {"Create", "Modify", "Remove"}
                        /\ x[3] <= Len(msg.paths)
                        /\ msg.paths[x[3]] = path})

\* C29: the delivery loop emits a notification for a path only if the event
\* kind is Create, Modify or Remove and the extension of the path is exactly
\* "excalidraw"; for every other kind or path it emits nothing, and each
\* qualifying path of a received event yields exactly one emission.
C29_EmitsExactlyTheQualifyingPaths ==
    /\ \A k \in 1..Len(watch.emitted) :
          /\ watch.emitted[k].event = "file-system-change"
          /\ watch.emitted[k].payload.path \in EventPathSet
    /\ \A path \in EventPathSet :
          IF EndsWith(path, <<DOT, "excalidraw">>)
          THEN EmittedCount(path) + AheadCount(path) = ReceivedCount(path)
          ELSE EmittedCount(path) = 0

\* a rename of a document gave two notifications; then a Create whose paths
\* are a text file and a file with the extension in capitals gave none
C29_Witness ==
    /\ Len(watch.subs) = 1
    /\ Len(watch.subs[1].received) = 2
    /\ watch.subs[1].received[1].kind = "Modify"
    /\ watch.subs[1].received[1].paths[1] = PathJoin(PathD, DRAFT)
    /\ watch.subs[1].received[2].kind = "Create"
    /\ watch.subs[1].received[2].paths[1] = PathJoin(PathD, README)
    /\ watch.subs[1].todo = <<>>
    /\ watch.emitted = <<Notification(PathJoin(PathD, DRAFT)),
                         Notification(PathJoin(PathD, NOTE))>>

\* the change kind the UI layer is told for an event kind
ChangeKind(kind) ==
    CASE kind = "Create" -> "created"
      [] kind = "Modify" -> "modified"
      [] kind = "Remove" -> "removed"
      [] OTHER -> "none"

\* C30: every watch notification delivered to the UI layer carries both the
\* changed path and a change kind from {created, modified, removed} that
\* matches the kind of the event that caused it.
C30_NotificationCarriesPathAndKind ==
    \A k \in 1..Len(watch.emitted) :
        LET n == watch.emitted[k].payload
        IN  /\ DOMAIN n = {"path", "kind"}
            /\ n.kind \in {"created", "modified", "removed"}
            /\ \E i \in DOMAIN watch.subs :
                  \E m \in 1..Len(watch.subs[i].received) :
                      LET msg == watch.subs[i].received[m]
                      IN  /\ ChangeKind(msg.kind) = n.kind
                          /\ \E j \in 1..Len(msg.paths) : msg.paths[j] = n.path

\* the calls before the last one have all returned: the calls came one after
\* the other
OneAfterTheOther ==
    \A i \in DOMAIN watch.subs : Replaced(i) => watch.subs[i].pc = "done"

\* the subscriptions whose channel takes a message in this step
Fed ==
    {i \in DOMAIN watch.subs :
        /\ i \in DOMAIN watch'.subs
        /\ Len(watch'.subs[i].channel) > Len(watch.subs[i].channel)}

\* C31: the watch is single-slot: after watch_directory(A) followed by
\* watch_directory(B), current_directory holds B, the earlier watch takes no
\* further change (so a change under A and not under B yields no
\* notification), and no change enters more than one delivery loop.
C31_SingleSlot ==
    /\ [](watch.subs # <<>> =>
            watch.current_directory =
                Some(watch.subs[Len(watch.subs)].directory))
    /\ [][OneAfterTheOther =>
            /\ \A i \in Fed : ~Replaced(i)
            /\ Cardinality(Fed) <= 1]_vars

\* watch_directory("/d") returned Ok, then watch_directory("/e") registered
\* its watch, then a file under /d changed: no loop has the change
C31_Witness ==
    /\ Len(watch.subs) = 2
    /\ watch.inputs = 3
    /\ watch.subs[1].directory = PathD
    /\ watch.subs[1].pc = "done" /\ watch.subs[1].result.ok
    /\ watch.subs[2].directory = PathE
    /\ watch.subs[2].watcher = "watching"
    /\ watch.current_directory = Some(PathE)
    /\ \A i \in 1..2 :
          watch.subs[i].channel = <<>> /\ watch.subs[i].received = <<>>
    /\ watch.emitted = <<>>

\* current_directory as call i found it: what the call before it had set, or
\* the initial None
DirectoryBefore(i) ==
    IF i = 1 THEN None ELSE Some(watch.subs[i - 1].directory)

\* C35: if watch_directory returns an error (creating the watcher or
\* registering the watch failed), AppState.current_directory keeps the value
\* it had before the call.
C35_ErrorKeepsCurrentDirectory ==
    \A i \in DOMAIN watch.subs :
        (/\ ~Replaced(i)
         /\ watch.subs[i].pc = "done"
         /\ ~watch.subs[i].result.ok) =>
            watch.current_directory = DirectoryBefore(i)

\* one call of watch_directory("/d") in a run
LoopStart ==
    /\ watch.subs = <<>>
    /\ WatchStart(PathD)

NextLoop ==
    \/ LoopStart
    \/ \E fault \in BOOLEAN : WatchCreate(1, fault)
    \/ WatchRegister(1)
    \/ WatchSpawn(1)
    \/ WatchReturn(1)
    \/ \E kind \in EventKinds, paths \in EventPaths : FsEvent(kind, paths)
    \/ WatcherError(1)
    \/ WatchRecv(1)
    \/ WatchEmit(1)

\* the delivery thread is a thread of the operating system: a step of its
\* loop that stays possible is taken
SpecLoop ==
    /\ Init /\ [][NextLoop]_vars
    /\ WF_vars(WatchRecv(1))
    /\ WF_vars(WatchEmit(1))

\* the thread of subscription i runs its loop
Looping(i) ==
    i \in DOMAIN watch.subs /\ watch.subs[i].thread \in {"recv", "emit"}

\* C36: the delivery thread terminates if and only if its channel is closed
\* (the watcher, the only sender, dropped): a thread that has ended had its
\* sender dropped and left no message behind, taking a message (a watcher
\* error, an event of any kind) never ends it, and once the sender is
\* dropped a running thread does end.
C36_LoopEndsIffChannelClosed ==
    /\ [](\A i \in DOMAIN watch.subs :
            watch.subs[i].thread = "exited" =>
                /\ watch.subs[i].watcher = "dropped"
                /\ watch.subs[i].channel = <<>>)
    /\ [][\A i \in DOMAIN watch.subs :
            Len(watch'.subs[i].received) > Len(watch.subs[i].received) =>
                watch'.subs[i].thread \in {"recv", "emit"}]_vars
    /\ (Looping(1) /\ watch.subs[1].watcher = "dropped")
          ~> (1 \in DOMAIN watch.subs /\ watch.subs[1].thread = "exited")

\* the loop took a watcher error, then a rename and emitted for both of its
\* paths, and ended after the handler had returned
C36_Witness ==
    /\ Len(watch.subs) = 1
    /\ watch.subs[1].thread = "exited"
    /\ Len(watch.subs[1].received) = 2
    /\ ~watch.subs[1].received[1].ok
    /\ watch.subs[1].received[2].kind = "Remove"
    /\ Len(watch.emitted) = 2

\* C32: if move_file fails at the verification step (the target cannot be
\* re-read, or its content differs from what was read from the source), then
\* afterwards no file exists at the target path and the source still exists
\* with its original content.
C32_MoveVerifyFailureLeavesNoTarget ==
    \A p \in Procs :
        (Returned(p) /\ op[p].kind = "move" /\ op[p].result.err \in VerifyErrors) =>
            /\ DstKey(op[p]) \notin DOMAIN files
            /\ Holds(op[p].srcKey, SourceContent(op[p]))

\* ------------------------------------------------- two commands at a time
\* Two tasks of the host run one command each; every step of one may fall
\* between two steps of the other.

Tasks == {1, 2}

FRESH == <<"fresh", DOT, "excalidraw">>

RaceFiles ==
    (Append(DirD, NOTE) :> "c1") @@ (Append(DirD, DRAFT) :> "c2")
    @@ (Append(DirE, FRESH) :> "c4")

InitRace ==
    /\ files = RaceFiles
    /\ dirs = {<<>>, DirD, DirE}
    /\ op = [p \in Tasks |-> Idle]
    /\ scanned = NoScan
    /\ vp = NoCall
    /\ calls = 0
    /\ call = NoPureCall
    /\ log = <<>>
    /\ watch = NoWatch

RaceSources == {PathJoin(PathD, NOTE), PathJoin(PathD, DRAFT)}

\* the new names a task may ask for: the two tasks never ask for the same
\* name, "fresh" and "fresh.excalidraw" give one destination, and "note" is
\* the name /d/note.excalidraw already has
RaceNames(p) ==
    IF p = 1 THEN {<<"fresh">>, <<"note">>} ELSE {FRESH, <<"other">>}

\* a task takes up rename_file(old_path, new_name)
RaceRename(p, old_path, new_name) ==
    /\ RenameBegin(p, old_path, new_name)
    /\ UNCHANGED calls

\* a task takes up move_file("/e/fresh.excalidraw", "/d")
RaceMove(p) ==
    /\ MoveBegin(p, PathJoin(PathE, FRESH), PathD)
    /\ UNCHANGED calls

NextRace ==
    \/ \E p \in Tasks, old_path \in RaceSources :
          \E new_name \in RaceNames(p) : RaceRename(p, old_path, new_name)
    \/ \E p \in Tasks : RenameRead(p)
    \/ \E p \in Tasks : RenameWrite(p)
    \/ \E p \in Tasks : RenameVerify(p)
    \/ \E p \in Tasks : RenameRemove(p)
    \/ \E p \in Tasks : RaceMove(p)
    \/ \E p \in Tasks : MoveRead(p)
    \/ \E p \in Tasks : MoveWrite(p)
    \/ \E p \in Tasks : MoveVerify(p)
    \/ \E p \in Tasks : MoveRemove(p)

SpecRace == InitRace /\ [][NextRace]_vars

\* both tasks have run a command to its end
BothReturned == \A p \in Tasks : op[p].pc = "done"

\* some file on disk holds content
Kept(content) == \E key \in DOMAIN files : files[key] = content

\* C33: under every interleaving of the steps of two rename_file calls on the
\* same source with two different new names, when both calls have finished
\* at least one file on disk holds the source's original content.
C33_TwoRenamesKeepContent ==
    \A n \in {NOTE, DRAFT} :
        (/\ BothReturned
         /\ \A p \in Tasks :
               op[p].kind = "rename" /\ op[p].src = PathJoin(PathD, n)
        ) => Kept(RaceFiles[Append(DirD, n)])

\* C34: under every interleaving of the steps of two rename_file/move_file
\* calls that have different sources and the same computed destination path,
\* a destination written by one call is never overwritten by the other: when
\* both calls have finished, the original content of each source still
\* exists at some path.
C34_SameDestinationKeepsBoth ==
    (/\ BothReturned
     /\ \A p \in Tasks : HadSource(op[p]) /\ op[p].dst # NoPath
     /\ op[1].srcKey # op[2].srcKey
     /\ PathEq(op[1].dst, op[2].dst)) =>
        \A p \in Tasks : Kept(SourceContent(op[p]))

\* the requested name was taken when create_new_file was called on a
\* directory
Collided(o) ==
    /\ o.name # <<>>
    /\ Resolve(o.src).ok
    /\ Resolve(o.src).comps \in dirs
    /\ Append(Resolve(o.src).comps, o.name) \in DOMAIN o.pre

\* C37: when the requested name collides, create_new_file writes to
\* <stem>-k.excalidraw in the given directory for the smallest k in 1..100 at
\* which no file exists, and it never writes to a path at which a file
\* existed when it checked, so the files that were there keep their content.
C37_SmallestFreeVariant ==
    \A p \in Procs :
        (Created(p) /\ Collided(op[p])) =>
            LET o == op[p]
                dir == Resolve(o.src).comps
                taken(k) == Append(dir, <<"note", "-", ToString(k), DOT, "excalidraw">>)
                                \in DOMAIN o.pre
            IN  /\ \A key \in DOMAIN o.pre :
                      key \in DOMAIN files /\ files[key] = o.pre[key]
                /\ (o.result.ok \/ files # o.pre) =>
                      \E k \in 1..100 :
                          /\ ~taken(k)
                          /\ \A j \in 1..(k - 1) : taken(j)
                          /\ o.dst = PathJoin(o.src,
                                 <<"note", "-", ToString(k), DOT, "excalidraw">>)
                          /\ DOMAIN files \ DOMAIN o.pre \subseteq
                                {Append(dir, <<"note", "-", ToString(k), DOT,
                                               "excalidraw">>)}

\* "note" and note-1 .. note-99 were taken and the file went to
\* note-100.excalidraw
C37_Witness ==
    \E p \in Procs :
        /\ Created(p) /\ Collided(op[p]) /\ op[p].result.ok
        /\ Cardinality(DOMAIN op[p].pre) = 100
        /\ op[p].dst = PathJoin(PathD, <<"note", "-", "100", DOT, "excalidraw">>)
        /\ Append(DirD, <<"note", "-", "100", DOT, "excalidraw">>) \in DOMAIN files

\* the nodes of a tree, those of every children list included
RECURSIVE AllNodes(_)
AllNodes(nodes) ==
    UNION {{nodes[i]} \cup AllNodes(nodes[i].children.nodes) : i \in 1..Len(nodes)}

\* every node of a children list is an entry of the directory of its parent
RECURSIVE Nested(_, _)
Nested(dir, nodes) ==
    \A i \in 1..Len(nodes) :
        /\ nodes[i].path = PathJoin(dir, nodes[i].name)
        /\ Nested(nodes[i].path, nodes[i].children.nodes)

\* the directories at depth one, two or three under directory
DirectoriesUnder(directory) ==
    LET one == {PathJoin(directory, n) : n \in EntryNames}
        two == {PathJoin(d, n) : d \in {x \in one : IsDir(x)}, n \in EntryNames}
        three == {PathJoin(d, n) : d \in {x \in two : IsDir(x)}, n \in EntryNames}
    IN  {path \in one \cup two \cup three : IsDir(path)}

\* C38: the tree get_file_tree returns includes every directory under the
\* root regardless of its contents: each directory node has a children list
\* that is present (possibly empty), each file node has no children list and
\* the extension "excalidraw", and a matching file three levels deep has a
\* node for each of its ancestor directories.
C38_EveryDirectoryHasANode ==
    (call.fn = "get_file_tree" /\ call.result.ok) =>
        LET all == AllNodes(call.value)
        IN  /\ Nested(call.args[1], call.value)
            /\ {n.path : n \in {x \in all : x.is_directory}}
                  = DirectoriesUnder(call.args[1])
            /\ {n.path : n \in {x \in all : ~x.is_directory}}
                  = DocumentsUnder(call.args[1])
            /\ \A n \in all :
                  IF n.is_directory
                  THEN n.children.some
                  ELSE /\ ~n.children.some
                       /\ Len(n.name) >= 3
                       /\ n.name[Len(n.name) - 1] = DOT
                       /\ n.name[Len(n.name)] = "excalidraw"
                       /\ n.children.nodes = <<>>

\* the tree of /: d, then sub, then note.excalidraw three levels deep, and
\* the empty directory /e/draft with a children list that is there and empty
C38_Witness ==
    /\ call.fn = "get_file_tree" /\ call.result.ok
    /\ call.args[1] = <<SEP>>
    /\ \E d, sub, doc, e, draft \in AllNodes(call.value) :
          /\ d.path = PathD /\ d.is_directory
          /\ sub.path = PathSub /\ sub.is_directory
          /\ \E i \in 1..Len(d.children.nodes) : d.children.nodes[i] = sub
          /\ doc.path = PathJoin(PathSub, NOTE) /\ ~doc.is_directory
          /\ \E i \in 1..Len(sub.children.nodes) : sub.children.nodes[i] = doc
          /\ e.path = PathE
          /\ draft.path = PathJoin(PathE, <<"draft">>)
          /\ \E i \in 1..Len(e.children.nodes) : e.children.nodes[i] = draft
          /\ draft.is_directory
          /\ draft.children.some /\ draft.children.nodes = <<>>

====
